---- MODULE Spec2Model ----
(***************************************************************************)
(* Model of the pattern selector of multi_agentic_patterns_langchain:      *)
(* the pattern knowledge tools (pattern_selector_agent/tools/patterns.py)  *)
(* and the decision tools (pattern_selector_agent/tools/decision.py).      *)
(*                                                                         *)
(* Text is a sequence of one-character strings, so that lower-casing,      *)
(* replacing and substring search are computed as Python computes them.    *)
(* A document is a sequence of lines; a line is a record [k, a, b]:        *)
(*   k = "delim"  the line  ---                                            *)
(*   k = "kv"     the line  a:b   (a the key, b the raw text after ':')    *)
(*   k = "head"   the line  ## a                                           *)
(*   k = "text"   any other line, a its text (no ':' in it)                *)
(* The documents of the model have no blank line right after the opening   *)
(* delimiter and no trailing blanks on a delimiter line.                   *)
(***************************************************************************)
EXTENDS Integers, Sequences, FiniteSets, TLC

VARIABLES
    files,              \* the knowledge directory: file name -> which document
                        \* the file holds ("good", "noheader", ...), or NoFile
    _patterns,          \* patterns.py:15,101  discovered patterns, in insertion order
    _loaded_patterns,   \* patterns.py:14      names loaded into context, in load order
    ret,                \* what the last tool call returned (or raised), who called,
                        \* and (history) the loaded list when the call began
    history,            \* (history) the names whose load succeeded since the list
                        \* was last empty by construction or reset, in call order
    requirements,       \* decision.py:179     the text given to evaluate_requirements
    evaluation,         \* decision.py:189-258 what evaluate_requirements computed
    use_case,           \* decision.py:262     the text given to analyze_use_case
    analysis,           \* decision.py:272-373 what analyze_use_case computed
    problem_description,\* decision.py:377     the text given to get_clarifying_questions
    clarification,      \* decision.py:386-459 what get_clarifying_questions computed
    pattern_names,      \* patterns.py:238     the text given to get_pattern_comparison
    retry,              \* core/utils.py:84-99 one wrapper of with_retry_and_fallback:
                        \* its closure, the position of a call of it, and
                        \* (history) the calls it has made
    pipeline,           \* examples/custom_workflow_content_pipeline.py:279-310
                        \* one run of the compiled graph: the node to run next,
                        \* the ContentState, and (history) the nodes that ran
    support,            \* state/support.py:22-40 the SupportState of one thread,
                        \* the ticket counters of tools/support, the last tool
                        \* message and what get_step_config last gave
    _skills_dir,        \* tools/code/skills.py:21  the skills directory
    _skills,            \* tools/code/skills.py:20  discovered skills, in insertion order
    _loaded_skills,     \* tools/code/skills.py:19  loaded skill ids, in load order
    skill_ret           \* what the last call of a skills function returned or raised

\* the variables of the tools another specification is about
classifierVars == <<use_case, analysis>>
questionVars == <<problem_description, clarification>>
\* the variables of the library code next to the pattern selector
retryVars == <<retry>>
pipelineVars == <<pipeline>>
supportVars == <<support>>
skillsVars == <<_skills_dir, _skills, _loaded_skills, skill_ret>>
libraryVars == <<retryVars, pipelineVars, supportVars, skillsVars>>
\* the variables of the pattern selector
selectorVars == <<files, _patterns, _loaded_patterns, ret, history, requirements,
                  evaluation, classifierVars, questionVars, pattern_names>>
otherVars == <<classifierVars, questionVars, pattern_names, libraryVars>>

vars == <<files, _patterns, _loaded_patterns, ret, history, requirements, evaluation,
          otherVars>>

----------------------------------------------------------------------------
(* Bounds of the model *)

\* the knowledge directory holds the first MaxFiles of the nine documents
MaxFiles == 3
\* a requirements text is made of at most MaxFragments fragments
MaxFragments == 2
\* the texts a requirements text is compared with have at most MaxShorter fragments
MaxShorter == 1
\* the list given to get_pattern_comparison has at most MaxNames names
MaxNames == 5
\* at most MaxRemoved documents are removed after discovery
MaxRemoved == 1

----------------------------------------------------------------------------
(* Characters and text *)

UpperLetters ==
    <<"A","B","C","D","E","F","G","H","I","J","K","L","M",
      "N","O","P","Q","R","S","T","U","V","W","X","Y","Z">>

LowerLetters ==
    <<"a","b","c","d","e","f","g","h","i","j","k","l","m",
      "n","o","p","q","r","s","t","u","v","w","x","y","z">>

\* str.lower() on one character
LowerChar(c) ==
    IF \E i \in 1..26 : UpperLetters[i] = c
    THEN LowerLetters[CHOOSE i \in 1..26 : UpperLetters[i] = c]
    ELSE c

\* str.lower()
Lower(s) == [i \in 1..Len(s) |-> LowerChar(s[i])]

\* str.replace(old, new) for one-character old and new
Replace(s, old, new) == [i \in 1..Len(s) |-> IF s[i] = old THEN new ELSE s[i]]

IsSpace(c) == c \in {" ", "\t"}

RECURSIVE LStrip(_)
LStrip(s) == IF s # <<>> /\ IsSpace(Head(s)) THEN LStrip(Tail(s)) ELSE s

RECURSIVE RStrip(_)
RStrip(s) ==
    IF s # <<>> /\ IsSpace(s[Len(s)]) THEN RStrip(SubSeq(s, 1, Len(s) - 1)) ELSE s

\* str.strip()
Strip(s) == RStrip(LStrip(s))

\* the Python expression  needle in hay
Contains(hay, needle) ==
    \E i \in 0..(Len(hay) - Len(needle)) :
        \A j \in 1..Len(needle) : hay[i + j] = needle[j]

----------------------------------------------------------------------------
(* The knowledge directory and its documents *)

NoFile == "NoFile"

\* the nine documents of pattern_selector_agent/knowledge
AllFileNames ==
    <<"handoffs.md",
      "router.md",
      "deep-agents.md",
      "subagents.md",
      "supervisor-forward.md",
      "hierarchical-teams.md",
      "context-quarantine.md",
      "skills.md",
      "custom-workflows.md">>

PatternNames ==
    <<<<"h","a","n","d","o","f","f","s">>,
      <<"r","o","u","t","e","r">>,
      <<"d","e","e","p","-","a","g","e","n","t","s">>,
      <<"s","u","b","a","g","e","n","t","s">>,
      <<"s","u","p","e","r","v","i","s","o","r","-","f","o","r","w","a","r","d">>,
      <<"h","i","e","r","a","r","c","h","i","c","a","l","-","t","e","a","m","s">>,
      <<"c","o","n","t","e","x","t","-","q","u","a","r","a","n","t","i","n","e">>,
      <<"s","k","i","l","l","s">>,
      <<"c","u","s","t","o","m","-","w","o","r","k","f","l","o","w","s">>>>

PatternTitles ==
    <<<<" ","H","a","n","d","o","f","f","s">>,
      <<" ","R","o","u","t","e","r">>,
      <<" ","D","e","e","p"," ","A","g","e","n","t","s">>,
      <<" ","S","u","b","a","g","e","n","t","s">>,
      <<" ","S","u","p","e","r","v","i","s","o","r"," ","F","o","r","w","a","r","d">>,
      <<" ","H","i","e","r","a","r","c","h","i","c","a","l"," ","T","e","a","m","s">>,
      <<" ","C","o","n","t","e","x","t"," ","Q","u","a","r","a","n","t","i","n","e">>,
      <<" ","S","k","i","l","l","s">>,
      <<" ","C","u","s","t","o","m"," ","W","o","r","k","f","l","o","w","s">>>>

KnowledgeFiles == {AllFileNames[i] : i \in 1..MaxFiles}

FileIndex(f) == CHOOSE i \in 1..Len(AllFileNames) : AllFileNames[i] = f

Delim == [k |-> "delim", a |-> <<>>, b |-> <<>>]
KV(key, value) == [k |-> "kv", a |-> key, b |-> value]
Heading(h) == [k |-> "head", a |-> h, b |-> <<>>]
Text(x) == [k |-> "text", a |-> x, b |-> <<>>]
Blank == Text("")

\* the sections every knowledge document has
BodyOf(f) ==
    << Blank,
       Heading("When to Use"), Text("use " \o f),
       Heading("When NOT to Use"), Text("avoid " \o f),
       Heading("Code Reference"), Text("see " \o f),
       Blank >>

\* a well-formed document: header, then body
GoodDoc(f) ==
    << Delim,
       KV("name", <<" ">> \o PatternNames[FileIndex(f)]),
       KV("title", PatternTitles[FileIndex(f)]),
       KV("description", <<" ","d">>),
       KV("category", <<" ","c">>),
       KV("complexity", <<" ","x">>),
       Delim >> \o BodyOf(f)

\* a document without a header
NoHeaderDoc(f) == BodyOf(f)

\* a document whose header has no name line
NoNameDoc(f) ==
    << Delim,
       KV("title", PatternTitles[FileIndex(f)]),
       KV("description", <<" ","d">>),
       KV("category", <<" ","c">>),
       KV("complexity", <<" ","x">>),
       Delim >> \o BodyOf(f)

\* a document whose header repeats the name of the first document
SameNameDoc(f) ==
    << Delim,
       KV("name", <<" ">> \o PatternNames[1]),
       KV("title", PatternTitles[FileIndex(f)]),
       KV("description", <<" ","d">>),
       KV("category", <<" ","c">>),
       KV("complexity", <<" ","x">>),
       Delim >> \o BodyOf(f)

\* a document rewritten after discovery: another title, category,
\* complexity and body under the same name
EditedDoc(f) ==
    << Delim,
       KV("name", <<" ">> \o PatternNames[FileIndex(f)]),
       KV("title", <<" ","N","e","w">>),
       KV("description", <<" ","d">>),
       KV("category", <<" ","n">>),
       KV("complexity", <<" ","y">>),
       Delim,
       Blank,
       Heading("When to Use"), Text("now use " \o f),
       Blank >>


LastFile == AllFileNames[MaxFiles]

\* the directories the process may start in
Directories ==
    { [f \in KnowledgeFiles |-> "good"],
      [f \in KnowledgeFiles |-> IF f = LastFile THEN "noheader" ELSE "good"] }

\* Path.read_text(): the lines of the file f of the directory dir
ReadText(dir, f) ==
    CASE dir[f] = "noheader" -> NoHeaderDoc(f)
      [] dir[f] = "noname" -> NoNameDoc(f)
      [] dir[f] = "samename" -> SameNameDoc(f)
      [] dir[f] = "edited" -> EditedDoc(f)
      [] OTHER -> GoodDoc(f)

\* the knowledge directory itself is missing
NoDirectory == [f \in KnowledgeFiles |-> "nodir"]

\* _knowledge_dir.exists()
DirectoryExists(dir) == dir # NoDirectory

\* the directories the discovery is examined in: the two above, two documents
\* without a header, a header without a name next to a document without a
\* header, a header repeating another document's name, and no directory
DiscoveryDirectories ==
    Directories \cup
    { [f \in KnowledgeFiles |->
          IF f \in {AllFileNames[2], LastFile} THEN "noheader" ELSE "good"],
      [f \in KnowledgeFiles |->
          IF f = AllFileNames[2] THEN "noname"
          ELSE IF f = LastFile THEN "noheader" ELSE "good"],
      [f \in KnowledgeFiles |-> IF f = AllFileNames[2] THEN "samename" ELSE "good"],
      NoDirectory }

\* the characters of a string
Chars(str) == [i \in 1..Len(str) |-> SubSeq(str, i, i)]

\* the characters of one line of a document
LineChars(line) ==
    CASE line.k = "delim" -> <<"-","-","-">>
      [] line.k = "kv" -> Chars(line.a) \o <<":">> \o line.b
      [] line.k = "head" -> <<"#","#"," ">> \o Chars(line.a)
      [] OTHER -> Chars(line.a)

\* the text of a document: its lines, each ended by a newline
RECURSIVE ContentChars(_)
ContentChars(doc) ==
    IF doc = <<>> THEN <<>>
    ELSE LineChars(Head(doc)) \o <<"\n">> \o ContentChars(Tail(doc))

----------------------------------------------------------------------------
(* patterns.py: parsing and discovery *)

Str_unknown == <<"u","n","k","n","o","w","n">>
Str_UnknownPattern == <<"U","n","k","n","o","w","n"," ","P","a","t","t","e","r","n">>
Str_NoDescription == <<"N","o"," ","d","e","s","c","r","i","p","t","i","o","n">>

\* the closing delimiter the pattern  ^---\s*\n(.*?)\n---\s*\n(.*)$  finds:
\* the first delimiter line from line 3 on that another line follows; 0 if none
ClosingDelim(content) ==
    LET js == { j \in 3..(Len(content) - 1) : content[j].k = "delim" }
    IN  IF Len(content) >= 1 /\ content[1].k = "delim" /\ js # {}
        THEN CHOOSE j \in js : \A i \in js : j <= i
        ELSE 0

\* metadata.get(key, default) after the loop over the header's lines:
\* the value of the last line 'key: value', stripped
MetadataGet(header, key, default) ==
    LET is == { i \in 1..Len(header) : header[i].k = "kv" /\ header[i].a = key }
    IN  IF is = {} THEN default
        ELSE Strip(header[CHOOSE i \in is : \A j \in is : j <= i].b)

\* body.strip() on lines: the blank lines at both ends go
RECURSIVE StripBlankLines(_)
StripBlankLines(body) ==
    IF body = <<>> THEN body
    ELSE IF Head(body) = Blank THEN StripBlankLines(Tail(body))
    ELSE IF body[Len(body)] = Blank THEN StripBlankLines(SubSeq(body, 1, Len(body) - 1))
    ELSE body

\* parse_pattern_frontmatter with an empty name in place of "unknown"
parse_pattern_frontmatter_NoName(content) ==
    LET j == ClosingDelim(content)
        header == SubSeq(content, 2, j - 1)
    IN  IF j = 0
        THEN [name |-> <<>>, title |-> Str_UnknownPattern,
              description |-> Str_NoDescription, category |-> Str_unknown,
              complexity |-> Str_unknown, body |-> content]
        ELSE [name |-> MetadataGet(header, "name", Str_unknown),
              title |-> MetadataGet(header, "title", Str_UnknownPattern),
              description |-> MetadataGet(header, "description", Str_NoDescription),
              category |-> MetadataGet(header, "category", Str_unknown),
              complexity |-> MetadataGet(header, "complexity", Str_unknown),
              body |-> StripBlankLines(SubSeq(content, j + 1, Len(content)))]

\* parse_pattern_frontmatter(content): the metadata and the body (lines 19-58)
parse_pattern_frontmatter(content) ==
    LET j == ClosingDelim(content)
        header == SubSeq(content, 2, j - 1)
    IN  IF j = 0
        THEN [name |-> Str_unknown, title |-> Str_UnknownPattern,
              description |-> Str_NoDescription, category |-> Str_unknown,
              complexity |-> Str_unknown, body |-> content]
        ELSE [name |-> MetadataGet(header, "name", Str_unknown),
              title |-> MetadataGet(header, "title", Str_UnknownPattern),
              description |-> MetadataGet(header, "description", Str_NoDescription),
              category |-> MetadataGet(header, "category", Str_unknown),
              complexity |-> MetadataGet(header, "complexity", Str_unknown),
              body |-> StripBlankLines(SubSeq(content, j + 1, Len(content)))]

\* a Python dict is a sequence of entries with distinct names, in insertion order
DictKeys(d) == [i \in 1..Len(d) |-> d[i].name]

DictHas(d, name) == \E i \in 1..Len(d) : d[i].name = name

DictGet(d, name) == d[CHOOSE i \in 1..Len(d) : d[i].name = name]

\* d[name] = entry: a new key goes last, a known key keeps its place
DictPut(d, entry) ==
    IF DictHas(d, entry.name)
    THEN [i \in 1..Len(d) |-> IF d[i].name = entry.name THEN entry ELSE d[i]]
    ELSE Append(d, entry)

\* the loop of discover_patterns over the files glob yields, in glob's order
RECURSIVE DiscoverLoop(_, _, _)
DiscoverLoop(dir, order, patterns) ==
    IF order = <<>> THEN patterns
    ELSE LET pattern_file == Head(order)
             parsed == parse_pattern_frontmatter(ReadText(dir, pattern_file))
         IN  DiscoverLoop(dir, Tail(order),
                 DictPut(patterns,
                     [name |-> parsed.name, title |-> parsed.title,
                      description |-> parsed.description,
                      category |-> parsed.category,
                      complexity |-> parsed.complexity,
                      path |-> pattern_file]))

\* exists is whether the knowledge directory exists; order is glob's order
discover_patterns(exists, dir, order) ==
    IF ~exists THEN <<>> ELSE DiscoverLoop(dir, order, <<>>)

\* the files that exist, in the order of AllFileNames
RECURSIVE PresentFrom(_, _)
PresentFrom(dir, i) ==
    IF i > Len(AllFileNames) THEN <<>>
    ELSE IF AllFileNames[i] \in DOMAIN dir /\ dir[AllFileNames[i]] # NoFile
         THEN <<AllFileNames[i]>> \o PresentFrom(dir, i + 1)
         ELSE PresentFrom(dir, i + 1)

Reverse(s) == [i \in 1..Len(s) |-> s[Len(s) + 1 - i]]

\* glob yields the files that exist in an order the file system chooses:
\* the model takes two of these orders
GlobOrders(dir) == { PresentFrom(dir, 1), Reverse(PresentFrom(dir, 1)) }

----------------------------------------------------------------------------
(* patterns.py: the loaded patterns *)

\* the conversation sessions (thread ids) served by the one process
Sessions == {"thread_a", "thread_b"}

\* the spellings given to load_pattern
LoadInputs ==
    { PatternNames[i] : i \in 1..MaxFiles } \cup
    { <<"D","e","e","p","_","A","g","e","n","t","s">>,
      <<"d","e","e","p"," ","a","g","e","n","t","s">>,
      <<"n","o","n","e","x","i","s","t","e","n","t">>,
      <<"u","n","k","n","o","w","n">> }

\* the Python expression  x in list
InList(list, x) == \E i \in 1..Len(list) : list[i] = x

\* pattern_name.lower().replace("_", "-"), the spaces left as they are
NormalizeName_KeepsSpaces(pattern_name) == Replace(Lower(pattern_name), "_", "-")

\* pattern_name.lower().replace("_", "-").replace(" ", "-")
NormalizeName(pattern_name) == Replace(Replace(Lower(pattern_name), "_", "-"), " ", "-")

\* Path.read_text() raises when the file is gone
CanRead(path) == files[path] # NoFile

NoRet ==
    [op |-> "none", by |-> "none", arg |-> <<>>, outcome |-> "none",
     title |-> <<>>, category |-> <<>>, complexity |-> <<>>,
     listed |-> <<>>, available |-> <<>>, body |-> <<>>, total |-> 0, loaded |-> 0,
     was |-> <<>>]

\* get_loaded_patterns(): a copy of the list
get_loaded_patterns == _loaded_patterns

\* reset_loaded_patterns() without its 'global' statement: the module's list stays
reset_loaded_patterns_NoGlobal == _loaded_patterns

\* reset_loaded_patterns() dropping only the newest name
reset_loaded_patterns_DropsLast ==
    SubSeq(_loaded_patterns, 1, Len(_loaded_patterns) - 1)

\* reset_loaded_patterns(): the list after the call
reset_loaded_patterns == <<>>

\* load_pattern appending before it reads the document
LoadedWhenReadRaises_AppendFirst(name) == Append(_loaded_patterns, name)

\* the list when read_text() raises in load_pattern: line 173 was not reached
LoadedWhenReadRaises(name) == _loaded_patterns

\* load_pattern without the test of line 166
LoadedWhenAlreadyLoaded_Appends(name) == Append(_loaded_patterns, name)

\* the list when load_pattern finds the name loaded already
LoadedWhenAlreadyLoaded(name) == _loaded_patterns

\* the list when load_pattern does not find the name
LoadedWhenNotFound(name) == _loaded_patterns

\* load_pattern inserting at the front
LoadedAfterAppend_Prepend(name) == <<name>> \o _loaded_patterns

\* the list after line 173
LoadedAfterAppend(name) == Append(_loaded_patterns, name)

\* the 'not found' message listing the loaded names
AvailableNames_Loaded == _loaded_patterns

\* ", ".join(_patterns.keys()): the names the 'not found' message lists
AvailableNames == DictKeys(_patterns)

\* the title, category and complexity taken from the document just read
ShownMetadata_Fresh(pattern, parsed) == parsed

\* the title, category and complexity load_pattern shows (lines 175-183):
\* those of the discovered pattern, not those of the document just read
ShownMetadata(pattern, parsed) == pattern

\* load_pattern(pattern_name): the list after the call, and what the call returns
load_pattern(pattern_name) ==
    LET name == NormalizeName(pattern_name)
        pattern == DictGet(_patterns, name)
        call == [NoRet EXCEPT !.op = "load_pattern", !.arg = pattern_name,
                              !.was = _loaded_patterns]
    IN  IF ~DictHas(_patterns, name)
        THEN [loaded |-> LoadedWhenNotFound(name),
              ret |-> [call EXCEPT !.outcome = "not_found",
                                   !.listed = AvailableNames]]
        ELSE IF InList(_loaded_patterns, name)
        THEN [loaded |-> LoadedWhenAlreadyLoaded(name),
              ret |-> [call EXCEPT !.outcome = "already_loaded",
                                   !.title = pattern.title]]
        ELSE IF ~CanRead(pattern.path)
        THEN [loaded |-> LoadedWhenReadRaises(name),
              ret |-> [call EXCEPT !.outcome = "raised"]]
        ELSE LET parsed == parse_pattern_frontmatter(ReadText(files, pattern.path))
                 shown == ShownMetadata(pattern, parsed)
             IN  [loaded |-> LoadedAfterAppend(name),
                  ret |-> [call EXCEPT !.outcome = "loaded",
                                       !.title = shown.title,
                                       !.category = shown.category,
                                       !.complexity = shown.complexity,
                                       !.body = parsed.body]]

----------------------------------------------------------------------------
(* The pattern tools as a state machine *)

NoEvaluation ==
    [kind |-> "none", detected |-> {}, sorted_patterns |-> <<>>, shown |-> <<>>,
     top |-> "", alternative |-> ""]

NoAnalysis ==
    [kind |-> "none", sorted_matches |-> <<>>, top |-> "", alt |-> ""]

NoClarificationYet == [kind |-> "none", questions |-> <<>>]

\* no wrapper has been built
NoWrapper ==
    [pc |-> "none", max_retries |-> 0, fallback_fn |-> FALSE, args |-> "",
     attempt |-> 0, delay |-> 0, e |-> <<>>, result |-> "", raised |-> <<>>,
     calls |-> <<>>]

RetryIdle == retry = NoWrapper

\* the graph has not been invoked
NoPipeline ==
    [node |-> "none",
     state |-> [content_type |-> "", revision_count |-> 0, status |-> "",
                quality_scores |-> <<>>, seo_score |-> 0, research_notes |-> FALSE,
                outline |-> FALSE, draft |-> 0, word_count |-> 0,
                review_feedback |-> 0, final_content |-> ""],
     trace |-> <<>>]

PipelineIdle == pipeline = NoPipeline

\* no thread of the support agent has been started
NoSupport ==
    [state |-> [current_step |-> "None", customer_id |-> "None",
                customer_name |-> "None", issue_type |-> "None",
                issue_description |-> "None", priority |-> "None",
                ticket_id |-> "None", resolution_status |-> "None"],
     _ticket_counter |-> 0, _eng_ticket_counter |-> 0,
     message |-> [tool |-> "", content |-> ""],
     config |-> [outcome |-> "", key |-> "", tools |-> {}]]

SupportIdle == support = NoSupport

NoSkillRet == [op |-> "", arg |-> "", outcome |-> "", shown |-> <<>>]

\* the skills module has not been imported
SkillsIdle ==
    /\ _skills_dir = ""
    /\ _skills = <<>>
    /\ _loaded_skills = <<>>
    /\ skill_ret = NoSkillRet

\* the library code is not in use in the specifications of the pattern selector
LibraryIdle ==
    /\ RetryIdle
    /\ PipelineIdle
    /\ SupportIdle
    /\ SkillsIdle

\* module load: the directory is scanned once (patterns.py:101), nothing is loaded
Init ==
    /\ LibraryIdle
    /\ files \in Directories
    /\ \E order \in GlobOrders(files) : _patterns = discover_patterns(TRUE, files, order)
    /\ _loaded_patterns = <<>>
    /\ ret = NoRet
    /\ history = <<>>
    /\ requirements = <<>>
    /\ evaluation = NoEvaluation
    /\ use_case = <<>>
    /\ analysis = NoAnalysis
    /\ problem_description = <<>>
    /\ clarification = NoClarificationYet
    /\ pattern_names = <<>>

LoadPattern(s, pattern_name) ==
    LET r == load_pattern(pattern_name)
    IN  /\ _loaded_patterns' = r.loaded
        /\ ret' = [r.ret EXCEPT !.by = s]
        /\ history' = IF r.ret.outcome = "loaded"
                      THEN Append(history, NormalizeName(pattern_name))
                      ELSE history
        /\ UNCHANGED <<files, _patterns, requirements, evaluation, otherVars>>

GetLoadedPatterns(s) ==
    /\ ret' = [NoRet EXCEPT !.op = "get_loaded_patterns", !.by = s, !.outcome = "ok",
                            !.listed = get_loaded_patterns, !.was = _loaded_patterns]
    /\ UNCHANGED <<files, _patterns, _loaded_patterns, history, requirements, evaluation, otherVars>>

ResetLoadedPatterns(s) ==
    /\ _loaded_patterns' = reset_loaded_patterns
    /\ ret' = [NoRet EXCEPT !.op = "reset_loaded_patterns", !.by = s, !.outcome = "ok",
                            !.was = _loaded_patterns]
    /\ history' = <<>>
    /\ UNCHANGED <<files, _patterns, requirements, evaluation, otherVars>>

\* the environment removes a document after discovery
RemoveFile(f) ==
    /\ files[f] # NoFile
    /\ Cardinality({ g \in KnowledgeFiles : files[g] = NoFile }) < MaxRemoved
    /\ files' = [files EXCEPT ![f] = NoFile]
    /\ UNCHANGED <<_patterns, _loaded_patterns, ret, history, requirements, evaluation, otherVars>>

Next ==
    \/ \E s \in Sessions, n \in LoadInputs : LoadPattern(s, n)
    \/ \E s \in Sessions : GetLoadedPatterns(s)
    \/ \E s \in Sessions : ResetLoadedPatterns(s)
    \/ \E f \in KnowledgeFiles : RemoveFile(f)

Spec == Init /\ [][Next]_vars

----------------------------------------------------------------------------
(* decision.py: the capability matrix and the keyword mappings *)

\* PATTERN_CAPABILITIES, in the order of the dict
PATTERN_CAPABILITIES ==
    <<
      [name |-> "subagents",
       caps |-> [parallel_execution |-> 5,
                context_isolation |-> 4,
                distributed_development |-> 5,
                direct_user_interaction |-> 1,
                coordination_complexity |-> 3,
                large_data_handling |-> 2,
                workflow_stages |-> 2]],
      [name |-> "deep-agents",
       caps |-> [parallel_execution |-> 3,
                context_isolation |-> 5,
                distributed_development |-> 4,
                direct_user_interaction |-> 2,
                coordination_complexity |-> 3,
                large_data_handling |-> 5,
                workflow_stages |-> 2]],
      [name |-> "supervisor-forward",
       caps |-> [parallel_execution |-> 3,
                context_isolation |-> 3,
                distributed_development |-> 4,
                direct_user_interaction |-> 3,
                coordination_complexity |-> 3,
                large_data_handling |-> 2,
                workflow_stages |-> 2,
                audit_compliance |-> 5,
                response_accuracy |-> 5]],
      [name |-> "hierarchical-teams",
       caps |-> [parallel_execution |-> 4,
                context_isolation |-> 4,
                distributed_development |-> 5,
                direct_user_interaction |-> 2,
                coordination_complexity |-> 5,
                large_data_handling |-> 3,
                workflow_stages |-> 3,
                organizational_modeling |-> 5]],
      [name |-> "context-quarantine",
       caps |-> [parallel_execution |-> 3,
                context_isolation |-> 5,
                distributed_development |-> 3,
                direct_user_interaction |-> 2,
                coordination_complexity |-> 3,
                large_data_handling |-> 5,
                workflow_stages |-> 2]],
      [name |-> "skills",
       caps |-> [parallel_execution |-> 1,
                context_isolation |-> 1,
                distributed_development |-> 5,
                direct_user_interaction |-> 4,
                coordination_complexity |-> 1,
                large_data_handling |-> 2,
                workflow_stages |-> 1,
                lightweight_composition |-> 5,
                runtime_adaptability |-> 5]],
      [name |-> "handoffs",
       caps |-> [parallel_execution |-> 1,
                context_isolation |-> 2,
                distributed_development |-> 4,
                direct_user_interaction |-> 5,
                coordination_complexity |-> 2,
                large_data_handling |-> 2,
                workflow_stages |-> 5,
                state_persistence |-> 5]],
      [name |-> "router",
       caps |-> [parallel_execution |-> 5,
                context_isolation |-> 3,
                distributed_development |-> 4,
                direct_user_interaction |-> 2,
                coordination_complexity |-> 2,
                large_data_handling |-> 3,
                workflow_stages |-> 1,
                query_classification |-> 5,
                result_synthesis |-> 5]],
      [name |-> "custom-workflows",
       caps |-> [parallel_execution |-> 4,
                context_isolation |-> 3,
                distributed_development |-> 3,
                direct_user_interaction |-> 3,
                coordination_complexity |-> 4,
                large_data_handling |-> 3,
                workflow_stages |-> 5,
                flexibility |-> 5,
                feedback_loops |-> 5]]
    >>

\* one entry of REQUIREMENT_MAPPINGS
Map(keyword, capability) == [keyword |-> keyword, capability |-> capability]

\* REQUIREMENT_MAPPINGS, in the order of the dict
REQUIREMENT_MAPPINGS ==
    <<
      Map(<<"p","a","r","a","l","l","e","l">>,
          "parallel_execution"),
      Map(<<"c","o","n","c","u","r","r","e","n","t">>,
          "parallel_execution"),
      Map(<<"s","i","m","u","l","t","a","n","e","o","u","s","l","y">>,
          "parallel_execution"),
      Map(<<"a","t"," ","t","h","e"," ","s","a","m","e"," ","t","i","m","e">>,
          "parallel_execution"),
      Map(<<"c","o","n","t","e","x","t"," ","i","s","o","l","a","t","i","o","n">>,
          "context_isolation"),
      Map(<<"i","s","o","l","a","t","e","d"," ","c","o","n","t","e","x","t">>,
          "context_isolation"),
      Map(<<"s","e","p","a","r","a","t","e"," ","c","o","n","t","e","x","t">>,
          "context_isolation"),
      Map(<<"c","o","n","t","e","x","t"," ","b","l","o","a","t">>,
          "large_data_handling"),
      Map(<<"l","a","r","g","e"," ","d","a","t","a">>,
          "large_data_handling"),
      Map(<<"b","i","g"," ","d","a","t","a">>,
          "large_data_handling"),
      Map(<<"l","a","r","g","e"," ","o","u","t","p","u","t","s">>,
          "large_data_handling"),
      Map(<<"h","u","g","e"," ","r","e","s","u","l","t","s">>,
          "large_data_handling"),
      Map(<<"t","a","l","k"," ","t","o"," ","u","s","e","r">>,
          "direct_user_interaction"),
      Map(<<"u","s","e","r"," ","i","n","t","e","r","a","c","t","i","o","n">>,
          "direct_user_interaction"),
      Map(<<"t","a","l","k"," ","d","i","r","e","c","t","l","y">>,
          "direct_user_interaction"),
      Map(<<"c","u","s","t","o","m","e","r"," ","f","a","c","i","n","g">>,
          "direct_user_interaction"),
      Map(<<"u","s","e","r","-","f","a","c","i","n","g">>,
          "direct_user_interaction"),
      Map(<<"s","t","a","g","e","s">>,
          "workflow_stages"),
      Map(<<"s","t","e","p","s">>,
          "workflow_stages"),
      Map(<<"p","h","a","s","e","s">>,
          "workflow_stages"),
      Map(<<"s","e","q","u","e","n","t","i","a","l">>,
          "workflow_stages"),
      Map(<<"s","t","a","t","e"," ","m","a","c","h","i","n","e">>,
          "workflow_stages"),
      Map(<<"w","o","r","k","f","l","o","w">>,
          "workflow_stages"),
      Map(<<"t","e","a","m","s">>,
          "organizational_modeling"),
      Map(<<"d","e","p","a","r","t","m","e","n","t","s">>,
          "organizational_modeling"),
      Map(<<"h","i","e","r","a","r","c","h","y">>,
          "organizational_modeling"),
      Map(<<"o","r","g","a","n","i","z","a","t","i","o","n">>,
          "organizational_modeling"),
      Map(<<"i","n","d","e","p","e","n","d","e","n","t"," ","d","e","v","e","l","o","p","m","e","n","t">>,
          "distributed_development"),
      Map(<<"s","e","p","a","r","a","t","e"," ","t","e","a","m","s">>,
          "distributed_development"),
      Map(<<"m","o","d","u","l","a","r">>,
          "distributed_development"),
      Map(<<"c","o","m","p","l","i","a","n","c","e">>,
          "audit_compliance"),
      Map(<<"a","u","d","i","t">>,
          "audit_compliance"),
      Map(<<"e","x","a","c","t"," ","w","o","r","d","i","n","g">>,
          "response_accuracy"),
      Map(<<"v","e","r","b","a","t","i","m">>,
          "response_accuracy"),
      Map(<<"l","i","a","b","i","l","i","t","y">>,
          "audit_compliance"),
      Map(<<"c","u","s","t","o","m">>,
          "flexibility"),
      Map(<<"f","l","e","x","i","b","l","e">>,
          "flexibility"),
      Map(<<"f","e","e","d","b","a","c","k"," ","l","o","o","p">>,
          "feedback_loops"),
      Map(<<"r","e","v","i","s","i","o","n">>,
          "feedback_loops"),
      Map(<<"r","e","v","i","e","w"," ","c","y","c","l","e">>,
          "feedback_loops"),
      Map(<<"l","i","g","h","t","w","e","i","g","h","t">>,
          "lightweight_composition"),
      Map(<<"s","i","m","p","l","e">>,
          "lightweight_composition"),
      Map(<<"s","i","n","g","l","e"," ","a","g","e","n","t">>,
          "lightweight_composition"),
      Map(<<"c","l","a","s","s","i","f","y">>,
          "query_classification"),
      Map(<<"r","o","u","t","e">>,
          "query_classification"),
      Map(<<"d","i","s","p","a","t","c","h">>,
          "query_classification"),
      Map(<<"m","u","l","t","i","p","l","e"," ","s","o","u","r","c","e","s">>,
          "result_synthesis"),
      Map(<<"c","o","m","b","i","n","e"," ","r","e","s","u","l","t","s">>,
          "result_synthesis"),
      Map(<<"s","y","n","t","h","e","s","i","z","e">>,
          "result_synthesis")
    >>

\* the pieces a requirements text is made of: the texts of the tests and
\* phrases of the mappings in several letter cases
Fragments ==
    {
      <<"N","e","e","d"," ","p","a","r","a","l","l","e","l"," ","e","x","e","c","u","t","i","o","n"," ","a","n","d"," ","r","e","s","u","l","t"," ","s","y","n","t","h","e","s","i","s">>,
      <<"b","u","i","l","d"," ","s","o","m","e","t","h","i","n","g"," ","c","o","o","l">>,
      <<"D","i","r","e","c","t"," ","u","s","e","r"," ","i","n","t","e","r","a","c","t","i","o","n"," ","w","i","t","h"," ","w","o","r","k","f","l","o","w"," ","s","t","a","g","e","s">>,
      <<" ","P","A","R","A","L","L","E","L">>,
      <<" ","S","y","n","t","h","e","s","i","z","e">>,
      <<" ","c","o","n","t","e","x","t"," ","b","l","o","a","t">>,
      <<" ","L","a","r","g","e"," ","D","a","t","a">>,
      <<" ","a","u","d","i","t">>,
      <<" ","v","e","r","b","a","t","i","m">>,
      <<" ","s","e","p","a","r","a","t","e">>,
      <<" ","t","e","a","m","s">>,
      <<" ","c","o","n","c","u","r","r","e","n","t">>
    }

Str_Scenario ==
    <<"N","e","e","d"," ","p","a","r","a","l","l","e","l"," ","e","x","e","c","u","t","i","o","n"," ","a","n","d"," ","r","e","s","u","l","t"," ","s","y","n","t","h","e","s","i","s">>

----------------------------------------------------------------------------
(* decision.py: evaluate_requirements *)

\* requirements.lower() without the call to lower()
RequirementsLower_NoLower(requirements_text) == requirements_text

\* requirements_lower = requirements.lower()
RequirementsLower(requirements_text) == Lower(requirements_text)

\* the loop over REQUIREMENT_MAPPINGS.items(): the set detected_capabilities
DetectedCapabilities(requirements_lower) ==
    { REQUIREMENT_MAPPINGS[i].capability :
        i \in { k \in 1..Len(REQUIREMENT_MAPPINGS) :
                  Contains(requirements_lower, REQUIREMENT_MAPPINGS[k].keyword) } }

\* score = capabilities[cap] in place of score += capabilities[cap]
SumRated_Assign(capabilities, caps) ==
    LET rated == caps \cap DOMAIN capabilities
    IN  IF rated = {} THEN 0 ELSE capabilities[CHOOSE c \in rated : TRUE]

\* score += capabilities[cap] for each cap of the set that the pattern rates
RECURSIVE SumRated(_, _)
SumRated(capabilities, caps) ==
    IF caps = {} THEN 0
    ELSE LET cap == CHOOSE c \in caps : TRUE
         IN  (IF cap \in DOMAIN capabilities THEN capabilities[cap] ELSE 0)
             + SumRated(capabilities, caps \ {cap})

\* len(detected_capabilities) + 5
MaxPossible_Plus(detected) == Cardinality(detected) + 5

\* "max_possible": len(detected_capabilities) * 5
MaxPossible(detected) == Cardinality(detected) * 5

\* the body of the loop over PATTERN_CAPABILITIES.items() for one pattern;
\* matched is built in the iteration order of a set, which Python leaves open:
\* the model keeps it as the set of its (capability, value) items
ScorePattern(pattern, detected) ==
    LET rated == detected \cap DOMAIN pattern.caps
    IN  [name |-> pattern.name,
         score |-> SumRated(pattern.caps, detected),
         max_possible |-> MaxPossible(detected),
         matched |-> { [cap |-> c, value |-> pattern.caps[c]] : c \in rated }]

\* scores = {...}: one entry per pattern, in the order of PATTERN_CAPABILITIES
Scores(detected) ==
    [i \in 1..Len(PATTERN_CAPABILITIES) |-> ScorePattern(PATTERN_CAPABILITIES[i], detected)]

\* a sort that puts an item before the items of equal score
RECURSIVE InsertDesc_BeforeEquals(_, _)
InsertDesc_BeforeEquals(sorted, item) ==
    IF sorted = <<>> THEN <<item>>
    ELSE IF Head(sorted).score > item.score
         THEN <<Head(sorted)>> \o InsertDesc_BeforeEquals(Tail(sorted), item)
         ELSE <<item>> \o sorted

\* item goes after every item whose score is at least its own: with the items
\* inserted in their original order this is sorted(..., reverse=True), which
\* is stable
RECURSIVE InsertDesc(_, _)
InsertDesc(sorted, item) ==
    IF sorted = <<>> THEN <<item>>
    ELSE IF Head(sorted).score >= item.score
         THEN <<Head(sorted)>> \o InsertDesc(Tail(sorted), item)
         ELSE <<item>> \o sorted

RECURSIVE SortFrom(_, _, _)
SortFrom(items, i, sorted) ==
    IF i > Len(items) THEN sorted
    ELSE SortFrom(items, i + 1, InsertDesc(sorted, items[i]))

\* sorted(...) without reverse=True
SortedPatterns_Ascending(scores) == Reverse(SortFrom(scores, 1, <<>>))

\* sorted(scores.items(), key=lambda x: x[1]["score"], reverse=True)
SortedPatterns(scores) == SortFrom(scores, 1, <<>>)

\* the number of entries the report shows
TopN == 5

\* evaluate_requirements without the test of line 197
evaluate_requirements_NoSentinel(requirements_text) ==
    LET detected == DetectedCapabilities(RequirementsLower(requirements_text))
        sorted_patterns == SortedPatterns(Scores(detected))
    IN  [kind |-> "ranking", detected |-> detected,
         sorted_patterns |-> sorted_patterns,
         shown |-> SubSeq(sorted_patterns, 1, TopN),
         top |-> sorted_patterns[1].name,
         alternative |->
             IF Len(sorted_patterns) > 1 /\ sorted_patterns[2].score > 0
             THEN sorted_patterns[2].name ELSE ""]

\* evaluate_requirements(requirements): what the returned text says
evaluate_requirements(requirements_text) ==
    LET detected == DetectedCapabilities(RequirementsLower(requirements_text))
        sorted_patterns == SortedPatterns(Scores(detected))
    IN  IF detected = {}
        THEN [kind |-> "could_not_detect", detected |-> detected,
              sorted_patterns |-> <<>>, shown |-> <<>>,
              top |-> "", alternative |-> ""]
        ELSE [kind |-> "ranking", detected |-> detected,
              sorted_patterns |-> sorted_patterns,
              shown |-> SubSeq(sorted_patterns, 1, TopN),
              top |-> sorted_patterns[1].name,
              alternative |->
                  IF Len(sorted_patterns) > 1 /\ sorted_patterns[2].score > 0
                  THEN sorted_patterns[2].name ELSE ""]

----------------------------------------------------------------------------
(* The decision tools as a state machine: a caller writes a text, then asks *)

\* the number of fragments of a text
RECURSIVE FragmentCount(_)
FragmentCount(text) ==
    IF text = <<>> THEN 0
    ELSE LET fs == { f \in Fragments :
                        Len(f) <= Len(text) /\ SubSeq(text, 1, Len(f)) = f }
         IN  1 + FragmentCount(SubSeq(text, Len(CHOOSE f \in fs : TRUE) + 1, Len(text)))

ScorerInit ==
    /\ LibraryIdle
    /\ files = [f \in KnowledgeFiles |-> "good"]
    /\ _patterns = discover_patterns(TRUE, files, PresentFrom(files, 1))
    /\ _loaded_patterns = <<>>
    /\ ret = NoRet
    /\ history = <<>>
    /\ requirements = <<>>
    /\ evaluation = NoEvaluation
    /\ use_case = <<>>
    /\ analysis = NoAnalysis
    /\ problem_description = <<>>
    /\ clarification = NoClarificationYet
    /\ pattern_names = <<>>

\* the caller extends the text of the next call
Describe(f) ==
    /\ FragmentCount(requirements) < MaxFragments
    /\ requirements' = requirements \o f
    /\ evaluation' = NoEvaluation
    /\ UNCHANGED <<files, _patterns, _loaded_patterns, ret, history, otherVars>>

EvaluateRequirements ==
    /\ evaluation = NoEvaluation
    /\ evaluation' = evaluate_requirements(requirements)
    /\ UNCHANGED <<files, _patterns, _loaded_patterns, ret, history, requirements, otherVars>>

ScorerNext ==
    \/ \E f \in Fragments : Describe(f)
    \/ EvaluateRequirements

ScorerSpec == ScorerInit /\ [][ScorerNext]_vars

----------------------------------------------------------------------------
(* analyze_use_case (decision.py:261-373) *)

\* decision.py:275-320  indicators, a dict: pattern -> phrases, in declaration order
indicators == <<
    [pattern |-> "subagents", keywords |-> <<
        <<"c","o","o","r","d","i","n","a","t","e">>,
        <<"c","o","o","r","d","i","n","a","t","o","r">>,
        <<"s","u","p","e","r","v","i","s","o","r">>,
        <<"d","o","m","a","i","n"," ","e","x","p","e","r","t">>,
        <<"s","p","e","c","i","a","l","i","s","t">>,
        <<"d","i","f","f","e","r","e","n","t"," ","d","o","m","a","i","n","s">>,
        <<"f","i","n","a","n","c","e">>, <<"b","u","d","g","e","t">>,
        <<"i","n","v","e","s","t","m","e","n","t">>, <<"t","a","x">>,
        <<"m","u","l","t","i","-","s","e","r","v","i","c","e">> >>],
    [pattern |-> "deep-agents", keywords |-> <<
        <<"r","e","s","e","a","r","c","h">>,
        <<"s","e","a","r","c","h"," ","m","a","n","y">>,
        <<"l","a","r","g","e"," ","o","u","t","p","u","t","s">>,
        <<"s","u","m","m","a","r","i","z","e">>,
        <<"c","o","n","t","e","x","t"," ","m","a","n","a","g","e","m","e","n","t">>,
        <<"d","a","t","a"," ","i","n","t","e","n","s","i","v","e">>,
        <<"m","a","n","y"," ","t","o","o","l"," ","c","a","l","l","s">>,
        <<"l","o","n","g"," ","c","o","n","v","e","r","s","a","t","i","o","n">> >>],
    [pattern |-> "supervisor-forward", keywords |-> <<
        <<"l","e","g","a","l">>, <<"m","e","d","i","c","a","l">>,
        <<"c","o","m","p","l","i","a","n","c","e">>,
        <<"e","x","a","c","t"," ","r","e","s","p","o","n","s","e">>,
        <<"v","e","r","b","a","t","i","m">>, <<"l","i","a","b","i","l","i","t","y">>,
        <<"a","u","d","i","t">>, <<"a","t","t","r","i","b","u","t","i","o","n">>,
        <<"r","e","g","u","l","a","t","e","d">>,
        <<"f","i","n","a","n","c","i","a","l"," ","a","d","v","i","c","e">> >>],
    [pattern |-> "hierarchical-teams", keywords |-> <<
        <<"t","e","a","m">>, <<"d","e","p","a","r","t","m","e","n","t">>,
        <<"h","i","e","r","a","r","c","h","y">>,
        <<"o","r","g","a","n","i","z","a","t","i","o","n">>,
        <<"t","e","a","m"," ","l","e","a","d">>, <<"n","e","s","t","e","d">>,
        <<"l","a","r","g","e"," ","s","c","a","l","e">>,
        <<"e","n","t","e","r","p","r","i","s","e">> >>],
    [pattern |-> "context-quarantine", keywords |-> <<
        <<"l","a","r","g","e"," ","d","a","t","a">>, <<"d","a","t","a","b","a","s","e">>,
        <<"b","i","g"," ","r","e","s","u","l","t","s">>,
        <<"s","u","m","m","a","r","i","z","e"," ","r","a","w">>,
        <<"t","o","k","e","n"," ","l","i","m","i","t">>,
        <<"c","o","n","t","e","x","t"," ","l","i","m","i","t">>,
        <<"h","u","g","e"," ","o","u","t","p","u","t">>, <<"1","0","0","0","0">>,
        <<"1","0","0","k">> >>],
    [pattern |-> "skills", keywords |-> <<
        <<"c","o","d","i","n","g">>,
        <<"p","r","o","g","r","a","m","m","i","n","g"," ","l","a","n","g","u","a","g","e">>,
        <<"p","y","t","h","o","n">>, <<"j","a","v","a","s","c","r","i","p","t">>,
        <<"c","o","d","e"," ","a","s","s","i","s","t","a","n","t">>,
        <<"w","r","i","t","i","n","g"," ","a","s","s","i","s","t","a","n","t">>,
        <<"m","u","l","t","i","p","l","e"," ","s","k","i","l","l","s">>,
        <<"p","r","o","m","p","t","-","b","a","s","e","d">>,
        <<"g","u","i","d","e","l","i","n","e","s">>,
        <<"b","e","s","t"," ","p","r","a","c","t","i","c","e","s">> >>],
    [pattern |-> "handoffs", keywords |-> <<
        <<"c","u","s","t","o","m","e","r"," ","s","u","p","p","o","r","t">>,
        <<"s","t","a","g","e","s">>, <<"s","t","e","p","s">>,
        <<"g","r","e","e","t","i","n","g">>, <<"c","o","l","l","e","c","t">>,
        <<"r","e","s","o","l","v","e">>,
        <<"s","t","a","t","e"," ","m","a","c","h","i","n","e">>,
        <<"w","o","r","k","f","l","o","w">>, <<"s","e","q","u","e","n","t","i","a","l">>,
        <<"t","a","l","k"," ","t","o"," ","u","s","e","r">>,
        <<"c","o","n","v","e","r","s","a","t","i","o","n"," ","f","l","o","w">> >>],
    [pattern |-> "router", keywords |-> <<
        <<"s","e","a","r","c","h">>, <<"q","u","e","r","y">>,
        <<"c","l","a","s","s","i","f","y">>, <<"d","i","s","p","a","t","c","h">>,
        <<"p","a","r","a","l","l","e","l">>,
        <<"m","u","l","t","i","p","l","e"," ","s","o","u","r","c","e","s">>,
        <<"k","n","o","w","l","e","d","g","e"," ","b","a","s","e">>, <<"f","a","q">>,
        <<"d","o","c","s">>, <<"t","u","t","o","r","i","a","l","s">>,
        <<"c","o","m","b","i","n","e"," ","r","e","s","u","l","t","s">> >>],
    [pattern |-> "custom-workflows", keywords |-> <<
        <<"c","o","n","t","e","n","t"," ","p","i","p","e","l","i","n","e">>,
        <<"r","e","v","i","e","w">>, <<"r","e","v","i","s","i","o","n">>,
        <<"f","e","e","d","b","a","c","k"," ","l","o","o","p">>,
        <<"a","p","p","r","o","v","a","l">>,
        <<"q","u","a","l","i","t","y"," ","g","a","t","e">>,
        <<"c","u","s","t","o","m"," ","f","l","o","w">>,
        <<"c","o","n","d","i","t","i","o","n","a","l">>, <<"b","r","a","n","c","h">>,
        <<"l","o","o","p"," ","b","a","c","k">> >>] >>

\* the pieces a use case text is made of: the texts of the tests
\* (test_pattern_selector_agent.py:251-289), a text with no indicator phrase,
\* and phrases of the table in other letter cases
UseCaseFragments == {
    \* 'Customer support system with billing and tech support stages'
    <<"C","u","s","t","o","m","e","r"," ","s","u","p","p","o","r","t"," ","s","y","s","t","e","m"," ","w","i","t","h"," ","b","i","l","l","i","n","g"," ","a","n","d"," ","t","e","c","h"," ","s","u","p","p","o","r","t"," ","s","t","a","g","e","s">>,
    \* 'Code assistant supporting Python, JavaScript, and Go'
    <<"C","o","d","e"," ","a","s","s","i","s","t","a","n","t"," ","s","u","p","p","o","r","t","i","n","g"," ","P","y","t","h","o","n",","," ","J","a","v","a","S","c","r","i","p","t",","," ","a","n","d"," ","G","o">>,
    \* 'Research system that searches multiple sources in parallel'
    <<"R","e","s","e","a","r","c","h"," ","s","y","s","t","e","m"," ","t","h","a","t"," ","s","e","a","r","c","h","e","s"," ","m","u","l","t","i","p","l","e"," ","s","o","u","r","c","e","s"," ","i","n"," ","p","a","r","a","l","l","e","l">>,
    \* 'Coordinate budget analyst, investment advisor, and tax consultant'
    <<"C","o","o","r","d","i","n","a","t","e"," ","b","u","d","g","e","t"," ","a","n","a","l","y","s","t",","," ","i","n","v","e","s","t","m","e","n","t"," ","a","d","v","i","s","o","r",","," ","a","n","d"," ","t","a","x"," ","c","o","n","s","u","l","t","a","n","t">>,
    \* 'build something cool'
    <<"b","u","i","l","d"," ","s","o","m","e","t","h","i","n","g"," ","c","o","o","l">>,
    \* ' Team Lead'
    <<" ","T","e","a","m"," ","L","e","a","d">>,
    \* ' audit'
    <<" ","a","u","d","i","t">>,
    \* ' review'
    <<" ","r","e","v","i","e","w">>,
    \* ' Workflow'
    <<" ","W","o","r","k","f","l","o","w">>,
    \* ' search many docs'
    <<" ","s","e","a","r","c","h"," ","m","a","n","y"," ","d","o","c","s">>,
    \* ' 100K rows'
    <<" ","1","0","0","K"," ","r","o","w","s">> }

\* the pieces of a text, counted from the left
RECURSIVE CountFragments(_, _)
CountFragments(text, fragments) ==
    IF text = <<>> THEN 0
    ELSE LET fs == { f \in fragments :
                        Len(f) <= Len(text) /\ SubSeq(text, 1, Len(f)) = f }
         IN  1 + CountFragments(SubSeq(text, Len(CHOOSE f \in fs : TRUE) + 1, Len(text)),
                                fragments)

\* s[:n]
Take(s, n) == IF Len(s) <= n THEN s ELSE SubSeq(s, 1, n)

\* [kw for kw in keywords if kw in use_case_lower]
MatchedKeywords(keywords, use_case_lower) ==
    SelectSeq(keywords, LAMBDA kw : Contains(use_case_lower, kw))

\* count = sum(1 for kw in keywords if kw in use_case_lower)
MatchCount(keywords, use_case_lower) == Len(MatchedKeywords(keywords, use_case_lower))

\* the loop of lines 323-326 with count >= 0 in place of count > 0
RECURSIVE MatchesFrom_KeepsZero(_, _)
MatchesFrom_KeepsZero(i, use_case_lower) ==
    IF i > Len(indicators) THEN <<>>
    ELSE LET count == MatchCount(indicators[i].keywords, use_case_lower)
         IN  <<[pattern |-> indicators[i].pattern, count |-> count]>>
                 \o MatchesFrom_KeepsZero(i + 1, use_case_lower)

\* matches: the loop of lines 322-326 from the i-th entry of the table on;
\* a pattern gets an entry only when count > 0, in the order of the table
RECURSIVE MatchesFrom(_, _)
MatchesFrom(i, use_case_lower) ==
    IF i > Len(indicators) THEN <<>>
    ELSE LET count == MatchCount(indicators[i].keywords, use_case_lower)
         IN  (IF count > 0
              THEN <<[pattern |-> indicators[i].pattern, count |-> count]>>
              ELSE <<>>) \o MatchesFrom(i + 1, use_case_lower)

\* an insertion that puts the item before the items of equal count
RECURSIVE InsertMatch_BeforeEquals(_, _)
InsertMatch_BeforeEquals(sorted, item) ==
    IF sorted = <<>> THEN <<item>>
    ELSE IF Head(sorted).count > item.count
         THEN <<Head(sorted)>> \o InsertMatch_BeforeEquals(Tail(sorted), item)
         ELSE <<item>> \o sorted

\* sorted(..., reverse=True) is stable: an item goes after the items whose
\* count is greater or equal
RECURSIVE InsertMatch(_, _)
InsertMatch(sorted, item) ==
    IF sorted = <<>> THEN <<item>>
    ELSE IF Head(sorted).count >= item.count
         THEN <<Head(sorted)>> \o InsertMatch(Tail(sorted), item)
         ELSE <<item>> \o sorted

RECURSIVE SortMatchesFrom(_, _, _)
SortMatchesFrom(items, i, sorted) ==
    IF i > Len(items) THEN sorted
    ELSE SortMatchesFrom(items, i + 1, InsertMatch(sorted, items[i]))

\* sorted(matches.items(), key=lambda x: x[1], reverse=True)
SortedMatches(matches) == SortMatchesFrom(matches, 1, <<>>)

\* the keywords of a pattern, indicators[pattern]
KeywordsOf(pattern) ==
    indicators[CHOOSE i \in 1..Len(indicators) : indicators[i].pattern = pattern].keywords

\* the report shows at most this many matched phrases of a pattern
MatchedShown == 5

\* analyze_use_case(use_case): what the returned text says
analyze_use_case(use_case_text) ==
    LET use_case_lower == Lower(use_case_text)
        matches == MatchesFrom(1, use_case_lower)
        sorted_matches == SortedMatches(matches)
    IN  IF matches = <<>>
        THEN [kind |-> "could_not_identify", sorted_matches |-> <<>>,
              top |-> "", alt |-> ""]
        ELSE [kind |-> "matches",
              sorted_matches |->
                  [i \in 1..Len(sorted_matches) |->
                      [pattern |-> sorted_matches[i].pattern,
                       count |-> sorted_matches[i].count,
                       matched |-> Take(MatchedKeywords(
                                            KeywordsOf(sorted_matches[i].pattern),
                                            use_case_lower), MatchedShown)]],
              top |-> sorted_matches[1].pattern,
              alt |-> IF Len(sorted_matches) > 1
                      THEN sorted_matches[2].pattern ELSE ""]

\* the tools of the pattern store are idle in the specifications of the
\* decision tools
TrackerIdle ==
    /\ files = [f \in KnowledgeFiles |-> "good"]
    /\ _patterns = discover_patterns(TRUE, files, PresentFrom(files, 1))
    /\ _loaded_patterns = <<>>
    /\ ret = NoRet
    /\ history = <<>>
    /\ pattern_names = <<>>

ClassifierInit ==
    /\ LibraryIdle
    /\ TrackerIdle
    /\ requirements = <<>>
    /\ evaluation = NoEvaluation
    /\ use_case = <<>>
    /\ analysis = NoAnalysis
    /\ problem_description = <<>>
    /\ clarification = NoClarificationYet

\* the caller extends the text of the next call
DescribeUseCase(f) ==
    /\ CountFragments(use_case, UseCaseFragments) < MaxFragments
    /\ use_case' = use_case \o f
    /\ analysis' = NoAnalysis
    /\ UNCHANGED <<files, _patterns, _loaded_patterns, ret, history, requirements,
                   evaluation, questionVars, pattern_names, libraryVars>>

AnalyzeUseCase ==
    /\ analysis = NoAnalysis
    /\ analysis' = analyze_use_case(use_case)
    /\ UNCHANGED <<files, _patterns, _loaded_patterns, ret, history, requirements,
                   evaluation, use_case, questionVars, pattern_names, libraryVars>>

ClassifierNext ==
    \/ \E f \in UseCaseFragments : DescribeUseCase(f)
    \/ AnalyzeUseCase

ClassifierSpec == ClassifierInit /\ [][ClassifierNext]_vars

----------------------------------------------------------------------------
(* get_clarifying_questions (decision.py:376-459) *)

\* decision.py:391-431  the six checks, in the order of the code: the aspect a
\* question is about and the words whose presence suppresses the question
Aspects == <<
    [aspect |-> "Execution Model",
     markers |-> << <<"p","a","r","a","l","l","e","l">>, <<"s","e","q","u","e","n","t","i","a","l">> >>],
    [aspect |-> "User Interaction",
     markers |-> << <<"u","s","e","r">>, <<"c","u","s","t","o","m","e","r">> >>],
    [aspect |-> "Data Volume",
     markers |-> << <<"l","a","r","g","e">>, <<"b","i","g">>, <<"h","u","g","e">>, <<"c","o","n","t","e","x","t">>, <<"t","o","k","e","n">> >>],
    [aspect |-> "Workflow Structure",
     markers |-> << <<"s","t","a","g","e">>, <<"s","t","e","p">>, <<"p","h","a","s","e">>, <<"w","o","r","k","f","l","o","w">>, <<"s","t","a","t","e">> >>],
    [aspect |-> "Agent Count",
     markers |-> << <<"s","i","n","g","l","e">>, <<"o","n","e">>, <<"m","u","l","t","i","p","l","e">>, <<"m","a","n","y">>, <<"s","e","v","e","r","a","l">> >>],
    [aspect |-> "Response Handling",
     markers |-> << <<"c","o","m","p","l","i","a","n","c","e">>, <<"a","u","d","i","t">>, <<"l","e","g","a","l">>, <<"e","x","a","c","t">>, <<"v","e","r","b","a","t","i","m">> >>] >>

\* the pieces a problem description is made of: the text of the test
\* (test_pattern_selector_agent.py:291-300) and texts holding marker words,
\* some inside longer words
ProblemFragments == {
    \* 'Building an assistant'
    <<"B","u","i","l","d","i","n","g"," ","a","n"," ","a","s","s","i","s","t","a","n","t">>,
    \* ' PARALLEL'
    <<" ","P","A","R","A","L","L","E","L">>,
    \* ' for customers'
    <<" ","f","o","r"," ","c","u","s","t","o","m","e","r","s">>,
    \* ' with big context'
    <<" ","w","i","t","h"," ","b","i","g"," ","c","o","n","t","e","x","t">>,
    \* ' in stages'
    <<" ","i","n"," ","s","t","a","g","e","s">>,
    \* ' several'
    <<" ","s","e","v","e","r","a","l">>,
    \* ' audit'
    <<" ","a","u","d","i","t">>,
    \* ' parallel customer workflow'
    <<" ","p","a","r","a","l","l","e","l"," ","c","u","s","t","o","m","e","r"," ","w","o","r","k","f","l","o","w">>,
    \* ' huge token audit of many'
    <<" ","h","u","g","e"," ","t","o","k","e","n"," ","a","u","d","i","t"," ","o","f"," ","m","a","n","y">>,
    \* ' stateless phone'
    <<" ","s","t","a","t","e","l","e","s","s"," ","p","h","o","n","e">> }

\* any(kw in problem_lower for kw in [...]): the question of an aspect is
\* appended when this is false
Mentions(aspect, problem_lower) ==
    \E i \in 1..Len(aspect.markers) : Contains(problem_lower, aspect.markers[i])

\* the questions list after the checks from the i-th on (lines 391-431)
RECURSIVE QuestionsFrom(_, _)
QuestionsFrom(i, problem_lower) ==
    IF i > Len(Aspects) THEN <<>>
    ELSE (IF Mentions(Aspects[i], problem_lower) THEN <<>> ELSE <<Aspects[i].aspect>>)
             \o QuestionsFrom(i + 1, problem_lower)

\* questions in place of questions[:4]
ShownQuestions_NoLimit(questions) == questions

\* questions[-4:] in place of questions[:4]
ShownQuestions_Last(questions) ==
    IF Len(questions) <= 4 THEN questions
    ELSE SubSeq(questions, Len(questions) - 3, Len(questions))

\* decision.py:453  questions[:4]
MaxQuestions == 4
ShownQuestions(questions) == Take(questions, MaxQuestions)

\* get_clarifying_questions(problem_description): what the returned text says
get_clarifying_questions(problem_text) ==
    LET problem_lower == Lower(problem_text)
        questions == QuestionsFrom(1, problem_lower)
    IN  IF questions = <<>>
        THEN [kind |-> "quite_detailed", questions |-> <<>>]
        ELSE [kind |-> "clarifying_questions", questions |-> ShownQuestions(questions)]

QuestionsInit ==
    /\ LibraryIdle
    /\ TrackerIdle
    /\ requirements = <<>>
    /\ evaluation = NoEvaluation
    /\ use_case = <<>>
    /\ analysis = NoAnalysis
    /\ problem_description = <<>>
    /\ clarification = NoClarificationYet

\* the caller extends the text of the next call
DescribeProblem(f) ==
    /\ CountFragments(problem_description, ProblemFragments) < MaxFragments
    /\ problem_description' = problem_description \o f
    /\ clarification' = NoClarificationYet
    /\ UNCHANGED <<files, _patterns, _loaded_patterns, ret, history, requirements,
                   evaluation, classifierVars, pattern_names, libraryVars>>

GetClarifyingQuestions ==
    /\ clarification = NoClarificationYet
    /\ clarification' = get_clarifying_questions(problem_description)
    /\ UNCHANGED <<files, _patterns, _loaded_patterns, ret, history, requirements,
                   evaluation, classifierVars, problem_description, pattern_names, libraryVars>>

QuestionsNext ==
    \/ \E f \in ProblemFragments : DescribeProblem(f)
    \/ GetClarifyingQuestions

QuestionsSpec == QuestionsInit /\ [][QuestionsNext]_vars

----------------------------------------------------------------------------
(* patterns.py: get_pattern_comparison (lines 237-301) *)

\* pattern_names.split(","): the pieces between the commas, at least one
RECURSIVE Split(_, _)
Split(s, sep) ==
    LET is == { i \in 1..Len(s) : s[i] = sep }
    IN  IF is = {} THEN <<s>>
        ELSE LET i == CHOOSE j \in is : \A k \in is : j <= k
             IN  <<SubSeq(s, 1, i - 1)>> \o Split(SubSeq(s, i + 1, Len(s)), sep)

\* n.strip().lower().replace("_", "-")
CompareNormalize(n) == Replace(Lower(Strip(n)), "_", "-")

\* names (line 246)
ComparedNames(pattern_names_text) ==
    LET pieces == Split(pattern_names_text, ",")
    IN  [i \in 1..Len(pieces) |-> CompareNormalize(pieces[i])]

\* invalid holding only the first name that is not a pattern
InvalidNames_FirstOnly(names) ==
    Take(SelectSeq(names, LAMBDA n : ~DictHas(_patterns, n)), 1)

\* invalid = [n for n in names if n not in _patterns]
InvalidNames(names) == SelectSeq(names, LAMBDA n : ~DictHas(_patterns, n))

\* patterns.py:254  len(names) < 2
MinCompared == 2
\* patterns.py:257  len(names) > 4
MaxCompared == 4

TooFew(names) == Len(names) < MinCompared

\* len(names) > 5 in place of len(names) > 4
TooMany_OffByOne(names) == Len(names) > MaxCompared + 1

TooMany(names) == Len(names) > MaxCompared

\* the "When to Use" section of a body (lines 289-293): from its heading to
\* the line before the next heading, stripped; empty without the heading.
\* The sections of the model's documents are shorter than the 400 characters
\* line 296 keeps, so they are shown whole.
WhenToUse(body) ==
    LET is == { i \in 1..Len(body) : body[i] = Heading("When to Use") }
        start == CHOOSE i \in is : \A k \in is : i <= k
        js == { j \in (start + 1)..Len(body) : body[j].k = "head" }
        end == IF js = {} THEN Len(body) + 1 ELSE CHOOSE j \in js : \A k \in js : j <= k
    IN  IF is = {} THEN <<>> ELSE StripBlankLines(SubSeq(body, start, end - 1))

\* get_pattern_comparison(pattern_names): what the call returns, or that it raised
get_pattern_comparison(pattern_names_text) ==
    LET names == ComparedNames(pattern_names_text)
        invalid == InvalidNames(names)
        call == [NoRet EXCEPT !.op = "get_pattern_comparison",
                              !.arg = pattern_names_text,
                              !.was = _loaded_patterns]
    IN  IF invalid # <<>>
        THEN [call EXCEPT !.outcome = "invalid_patterns", !.listed = invalid,
                          !.available = DictKeys(_patterns)]
        ELSE IF TooFew(names)
        THEN [call EXCEPT !.outcome = "at_least_2"]
        ELSE IF TooMany(names)
        THEN [call EXCEPT !.outcome = "at_most_4"]
        ELSE IF \E i \in 1..Len(names) : ~CanRead(DictGet(_patterns, names[i]).path)
        THEN [call EXCEPT !.outcome = "raised"]
        ELSE [call EXCEPT
                 !.outcome = "comparison",
                 !.listed = names,
                 !.body = [i \in 1..Len(names) |->
                              LET pattern == DictGet(_patterns, names[i])
                                  parsed == parse_pattern_frontmatter(
                                                ReadText(files, pattern.path))
                              IN  [name |-> names[i], title |-> pattern.title,
                                   category |-> pattern.category,
                                   complexity |-> pattern.complexity,
                                   when_to_use |-> WhenToUse(parsed.body)]]]

\* the names a caller puts into the list given to get_pattern_comparison:
\* those of test_pattern_selector_agent.py:170-188, and a name written with
\* a space before it, capitals and an underscore
CompareInputs ==
    { <<"h","a","n","d","o","f","f","s">>,
      <<" ","D","e","e","p","_","A","g","e","n","t","s">>,
      <<"i","n","v","a","l","i","d","1">>,
      <<"i","n","v","a","l","i","d","2">> }

\* the names the caller put into the text: none in the empty text
GivenNames(pattern_names_text) ==
    IF pattern_names_text = <<>> THEN <<>> ELSE Split(pattern_names_text, ",")

CompareInit ==
    /\ LibraryIdle
    /\ TrackerIdle
    /\ requirements = <<>>
    /\ evaluation = NoEvaluation
    /\ use_case = <<>>
    /\ analysis = NoAnalysis
    /\ problem_description = <<>>
    /\ clarification = NoClarificationYet

\* the caller adds a name to the list of the next call
AddName(n) ==
    /\ Len(GivenNames(pattern_names)) < MaxNames
    /\ pattern_names' = IF pattern_names = <<>> THEN n ELSE pattern_names \o <<",">> \o n
    /\ ret' = NoRet
    /\ UNCHANGED <<files, _patterns, _loaded_patterns, history, requirements, evaluation,
                   classifierVars, questionVars, libraryVars>>

GetPatternComparison ==
    /\ ret = NoRet
    /\ ret' = get_pattern_comparison(pattern_names)
    /\ UNCHANGED <<files, _patterns, _loaded_patterns, history, requirements, evaluation,
                   classifierVars, questionVars, pattern_names, libraryVars>>

CompareNext ==
    \/ \E n \in CompareInputs : AddName(n)
    \/ GetPatternComparison
    \/ \E f \in KnowledgeFiles : RemoveFile(f)

CompareSpec == CompareInit /\ [][CompareNext]_vars

----------------------------------------------------------------------------
(* patterns.py: list_all_patterns (lines 104-142) and documents that change *)

\* the characters of the texts, in the order of their code points
CodePoints ==
    <<"\n", " ", "#", "-", ".", "0", "1", "2", "3", "4", "5", "6", "7", "8", "9", ":">>
    \o UpperLetters \o <<"_">> \o LowerLetters

CodePoint(c) == CHOOSE i \in 1..Len(CodePoints) : CodePoints[i] = c

\* the Python expression  a < b  on two texts
RECURSIVE TextLess(_, _)
TextLess(a, b) ==
    IF b = <<>> THEN FALSE
    ELSE IF a = <<>> THEN TRUE
    ELSE IF Head(a) = Head(b) THEN TextLess(Tail(a), Tail(b))
    ELSE CodePoint(Head(a)) < CodePoint(Head(b))

\* the categories of the discovered patterns, each once, in the order of
\* their first pattern (the keys of the dict categories, lines 121-126)
RECURSIVE CategoriesFrom(_, _)
CategoriesFrom(i, seen) ==
    IF i > Len(_patterns) THEN seen
    ELSE CategoriesFrom(i + 1,
             IF InList(seen, _patterns[i].category) THEN seen
             ELSE Append(seen, _patterns[i].category))

\* sorted(...) on texts that differ: a text goes before the first greater one
RECURSIVE InsertText(_, _)
InsertText(sorted, text) ==
    IF sorted = <<>> THEN <<text>>
    ELSE IF TextLess(text, Head(sorted)) THEN <<text>> \o sorted
    ELSE <<Head(sorted)>> \o InsertText(Tail(sorted), text)

RECURSIVE SortTextsFrom(_, _, _)
SortTextsFrom(texts, i, sorted) ==
    IF i > Len(texts) THEN sorted
    ELSE SortTextsFrom(texts, i + 1, InsertText(sorted, texts[i]))

SortedTexts(texts) == SortTextsFrom(texts, 1, <<>>)

\* str.upper() on one character, and on a text
UpperChar(c) ==
    IF \E i \in 1..26 : LowerLetters[i] = c
    THEN UpperLetters[CHOOSE i \in 1..26 : LowerLetters[i] = c]
    ELSE c

Upper(s) == [i \in 1..Len(s) |-> UpperChar(s[i])]

\* the count shown as 'Loaded: N' taken from the discovered patterns
LoadedCount_Discovered == Len(_patterns)

\* line 140: len(_loaded_patterns)
LoadedCount == Len(_loaded_patterns)

\* the patterns of a category as the listing shows them (lines 131-136):
\* sorted by name, each with its mark
PatternsShown(category) ==
    LET names == SortedTexts(SelectSeq(DictKeys(_patterns),
                     LAMBDA n : DictGet(_patterns, n).category = category))
    IN  [i \in 1..Len(names) |->
            LET p == DictGet(_patterns, names[i])
            IN  [title |-> p.title, marked |-> InList(_loaded_patterns, p.name),
                 name |-> p.name, complexity |-> p.complexity,
                 description |-> p.description]]

\* list_all_patterns(): what the returned text says
list_all_patterns ==
    LET call == [NoRet EXCEPT !.op = "list_all_patterns", !.was = _loaded_patterns]
        categories == SortedTexts(CategoriesFrom(1, <<>>))
    IN  IF _patterns = <<>>
        THEN [call EXCEPT !.outcome = "no_patterns_found"]
        ELSE [call EXCEPT
                 !.outcome = "listing",
                 !.body = [i \in 1..Len(categories) |->
                              [category |-> Upper(categories[i]),
                               patterns |-> PatternsShown(categories[i])]],
                 !.total = Len(_patterns),
                 !.loaded = LoadedCount]

\* at most MaxChanged documents are rewritten after discovery
MaxChanged == 1

\* the lists given to get_pattern_comparison while documents change
ChangedComparisons ==
    { <<"h","a","n","d","o","f","f","s",",","r","o","u","t","e","r">> }

ListAllPatterns ==
    /\ ret' = list_all_patterns
    /\ UNCHANGED <<files, _patterns, _loaded_patterns, history, requirements, evaluation,
                   otherVars>>

ComparePatterns(names_text) ==
    /\ ret' = get_pattern_comparison(names_text)
    /\ UNCHANGED <<files, _patterns, _loaded_patterns, history, requirements, evaluation,
                   otherVars>>

\* the environment rewrites a document after discovery
ChangeFile(f) ==
    /\ files[f] \notin {NoFile, "edited"}
    /\ Cardinality({ g \in KnowledgeFiles : files[g] = "edited" }) < MaxChanged
    /\ files' = [files EXCEPT ![f] = "edited"]
    /\ UNCHANGED <<_patterns, _loaded_patterns, ret, history, requirements, evaluation,
                   otherVars>>

\* the one session of the listing
ListingSession == "thread_a"

ListingNext ==
    \/ \E n \in LoadInputs : LoadPattern(ListingSession, n)
    \/ ResetLoadedPatterns(ListingSession)
    \/ ListAllPatterns
    \/ \E t \in ChangedComparisons : ComparePatterns(t)
    \/ \E f \in KnowledgeFiles : ChangeFile(f)

ListingSpec == Init /\ [][ListingNext]_vars

----------------------------------------------------------------------------
(* patterns.py: search_patterns (lines 186-234) *)

\* str.find(needle): the 0-based index of the first occurrence, -1 if none
Find(hay, needle) ==
    LET is == { i \in 0..(Len(hay) - Len(needle)) :
                  \A j \in 1..Len(needle) : hay[i + j] = needle[j] }
    IN  IF is = {} THEN -1 ELSE CHOOSE i \in is : \A k \in is : i <= k

\* str.count(needle) from the 1-based position i on: occurrences that do
\* not overlap, found from the left
RECURSIVE CountFrom(_, _, _)
CountFrom(hay, needle, i) ==
    LET ks == { k \in i..(Len(hay) - Len(needle) + 1) :
                  \A j \in 1..Len(needle) : hay[k - 1 + j] = needle[j] }
        next == CHOOSE k \in ks : \A m \in ks : k <= m
    IN  IF needle = <<>> THEN Len(hay) + 2 - i
        ELSE IF ks = {} THEN 0
        ELSE 1 + CountFrom(hay, needle, next + Len(needle))

\* patterns.py:208-209  the snippet starts 50 characters before the match
\* and ends 100 characters after it
SnippetBefore == 50
SnippetAfter == 100

\* "..." + content[start:end].replace("\n", " ") + "..."
Snippet(content, query) ==
    LET idx == Find(content, Lower(query))
        start == IF idx - SnippetBefore > 0 THEN idx - SnippetBefore ELSE 0
        end == IF idx + Len(query) + SnippetAfter < Len(content)
               THEN idx + Len(query) + SnippetAfter ELSE Len(content)
    IN  <<".",".",".">> \o Replace(SubSeq(content, start + 1, end), "\n", " ")
            \o <<".",".",".">>

\* results after the loop over _patterns from the i-th entry on (lines 198-218)
RECURSIVE SearchResultsFrom(_, _)
SearchResultsFrom(i, query) ==
    IF i > Len(_patterns) THEN <<>>
    ELSE LET pattern == _patterns[i]
             content == Lower(ContentChars(ReadText(files, pattern.path)))
         IN  (IF Contains(content, Lower(query))
              THEN <<[name |-> pattern.name, title |-> pattern.title,
                      matches |-> CountFrom(content, Lower(query), 1),
                      snippet |-> Snippet(content, query)]>>
              ELSE <<>>) \o SearchResultsFrom(i + 1, query)

\* list.sort(reverse=True) is stable: a result goes after the results whose
\* matches are greater or equal
RECURSIVE InsertResult(_, _)
InsertResult(sorted, item) ==
    IF sorted = <<>> THEN <<item>>
    ELSE IF Head(sorted).matches >= item.matches
         THEN <<Head(sorted)>> \o InsertResult(Tail(sorted), item)
         ELSE <<item>> \o sorted

RECURSIVE SortResultsFrom(_, _, _)
SortResultsFrom(items, i, sorted) ==
    IF i > Len(items) THEN sorted
    ELSE SortResultsFrom(items, i + 1, InsertResult(sorted, items[i]))

\* whether the loop of search_patterns reaches a read_text() that raises:
\* every discovered document is read (line 200), none inside a try
SearchReadRaises == \E i \in 1..Len(_patterns) : ~CanRead(_patterns[i].path)

\* search_patterns(query): what the call returns, or that it raised
search_patterns(query) ==
    LET call == [NoRet EXCEPT !.op = "search_patterns", !.arg = query,
                              !.was = _loaded_patterns]
        results == SearchResultsFrom(1, query)
    IN  IF SearchReadRaises
        THEN [call EXCEPT !.outcome = "raised"]
        ELSE IF results = <<>>
        THEN [call EXCEPT !.outcome = "no_patterns_found"]
        ELSE [call EXCEPT !.outcome = "results",
                          !.body = SortResultsFrom(results, 1, <<>>)]

\* the queries given to search_patterns: those of
\* test_pattern_selector_agent.py:155-170, words of the documents in other
\* letter cases, and single letters
SearchQueries ==
    { <<"p","a","r","a","l","l","e","l">>,
      <<"x","y","z","n","o","n","e","x","i","s","t","e","n","t","1","2","3">>,
      <<"U","s","e">>,
      <<"H","A","N","D","O","F","F","S">>,
      <<"o">>,
      <<"e","e">> }

\* module load in one of the directories of DiscoveryDirectories
DiscoveryInit ==
    /\ LibraryIdle
    /\ files \in DiscoveryDirectories
    /\ \E order \in GlobOrders(files) :
          _patterns = discover_patterns(DirectoryExists(files), files, order)
    /\ _loaded_patterns = <<>>
    /\ ret = NoRet
    /\ history = <<>>
    /\ requirements = <<>>
    /\ evaluation = NoEvaluation
    /\ use_case = <<>>
    /\ analysis = NoAnalysis
    /\ problem_description = <<>>
    /\ clarification = NoClarificationYet
    /\ pattern_names = <<>>

SearchPatterns(query) ==
    /\ ret' = search_patterns(query)
    /\ UNCHANGED <<files, _patterns, _loaded_patterns, history, requirements, evaluation,
                   otherVars>>

\* the environment removes a document of the directory after discovery
RemoveDiscovered(f) ==
    /\ DirectoryExists(files)
    /\ RemoveFile(f)

DiscoveryNext ==
    \/ \E q \in SearchQueries : SearchPatterns(q)
    \/ \E f \in KnowledgeFiles : RemoveDiscovered(f)

DiscoverySpec == DiscoveryInit /\ [][DiscoveryNext]_vars

----------------------------------------------------------------------------
(* Claims about the loaded patterns *)

Str_handoffs == PatternNames[1]

Range(list) == { list[i] : i \in 1..Len(list) }

\* the list without the name n
Without(list, n) == SelectSeq(list, LAMBDA x : x # n)

\* C1: a load_pattern(id) call that returned ('loaded' or 'already loaded'),
\* followed immediately by load_pattern(id) again: the second call reports
\* 'already loaded' and leaves the loaded list as it was.
C1_LoadTwiceIsAlreadyLoaded ==
    [][ \A s \in Sessions, n \in LoadInputs :
          ( /\ ret.op = "load_pattern"
            /\ ret.arg = n
            /\ ret.outcome \in {"loaded", "already_loaded"}
            /\ LoadPattern(s, n) )
          => /\ ret'.outcome = "already_loaded"
             /\ _loaded_patterns' = _loaded_patterns ]_vars

C1_Witness ==
    /\ ret.op = "load_pattern"
    /\ ret.outcome = "already_loaded"
    /\ InList(_loaded_patterns, NormalizeName(ret.arg))
    /\ Len(_loaded_patterns) >= 2

\* C2: after reset_loaded_patterns() the loaded list is empty whatever it held,
\* and each name it held loads again with outcome 'loaded' (its document being
\* readable), giving the list of that one name.
C2_ResetEmptiesAndAllowsReload ==
    ret.op = "reset_loaded_patterns" =>
        /\ _loaded_patterns = <<>>
        /\ get_loaded_patterns = <<>>
        /\ \A n \in Range(ret.was) :
              CanRead(DictGet(_patterns, n).path) =>
                  /\ load_pattern(n).ret.outcome = "loaded"
                  /\ load_pattern(n).loaded = <<n>>

C2_Witness ==
    /\ ret.op = "reset_loaded_patterns"
    /\ Len(ret.was) >= 2
    /\ \A n \in Range(ret.was) : CanRead(DictGet(_patterns, n).path)

\* what get_loaded_patterns() gives a session: the module's one list (patterns.py:14)
SessionView(t) == get_loaded_patterns

\* C3: a load or reset made by one session leaves what get_loaded_patterns()
\* returns in every other session unchanged.
C3_SessionIsolation ==
    [][ \A s \in Sessions :
          ( (\E n \in LoadInputs : LoadPattern(s, n)) \/ ResetLoadedPatterns(s) )
          => \A t \in Sessions \ {s} : SessionView(t)' = SessionView(t) ]_vars

\* C4: when read_text() raises inside load_pattern, the loaded list is the
\* list from before the call.
C4_FailedReadAddsNothing ==
    (ret.op = "load_pattern" /\ ret.outcome = "raised") =>
        /\ _loaded_patterns = ret.was
        /\ ~InList(_loaded_patterns, NormalizeName(ret.arg))

C4_Witness ==
    /\ ret.op = "load_pattern"
    /\ ret.outcome = "raised"
    /\ _loaded_patterns # <<>>

\* C5: load_pattern with a name that (normalized) is no discovered name returns
\* the 'not found' message listing the discovered names, raises nothing and
\* leaves the loaded list as it was.
C5_UnknownNameIsReported ==
    (ret.op = "load_pattern" /\ ~DictHas(_patterns, NormalizeName(ret.arg))) =>
        /\ ret.outcome = "not_found"
        /\ ret.listed = DictKeys(_patterns)
        /\ _loaded_patterns = ret.was

C5_Witness ==
    /\ ret.op = "load_pattern"
    /\ ret.outcome = "not_found"
    /\ _loaded_patterns # <<>>
    /\ ret.listed # _loaded_patterns

\* C6: get_loaded_patterns() is the names whose load succeeded since the list
\* was last empty, in the order of the calls; a successful load puts its name
\* last; load_pattern("handoffs") on an empty list (document readable) returns
\* 'loaded' and the list is <<"handoffs">>.
C6_ListIsLoadOrder ==
    /\ get_loaded_patterns = history
    /\ (ret.op = "get_loaded_patterns") => ret.listed = history
    /\ (ret.op = "load_pattern" /\ ret.outcome = "loaded") =>
            _loaded_patterns = Append(ret.was, NormalizeName(ret.arg))
    /\ ( /\ ret.op = "load_pattern"
         /\ ret.arg = Str_handoffs
         /\ ret.was = <<>>
         /\ CanRead("handoffs.md") )
       => (ret.outcome = "loaded" /\ get_loaded_patterns = <<Str_handoffs>>)

C6_Witness ==
    /\ ret.op = "get_loaded_patterns"
    /\ Len(ret.listed) >= 2
    /\ ret.listed[Len(ret.listed)] = Str_handoffs

\* what one call of a function of patterns.py can leave in the loaded list,
\* with the outcome it reports
CallResults ==
    { [loaded |-> load_pattern(n).loaded, outcome |-> load_pattern(n).ret.outcome] :
        n \in LoadInputs }
    \cup { [loaded |-> reset_loaded_patterns, outcome |-> "ok"],
           [loaded |-> get_loaded_patterns, outcome |-> "ok"] }

----------------------------------------------------------------------------
(* Claims about evaluate_requirements *)

\* the same letter, in either case
SameLetter(a, b) ==
    \/ a = b
    \/ \E k \in 1..26 : {a, b} = {UpperLetters[k], LowerLetters[k]}

\* phrase occurs in text as a substring, in any letter case
OccursInAnyCase(text, phrase) ==
    \E i \in 0..(Len(text) - Len(phrase)) :
        \A j \in 1..Len(phrase) : SameLetter(text[i + j], phrase[j])

\* C8 (as claimed): for "Need parallel execution and result synthesis" the top
\* recommendation is router.
C8_TopIsRouter ==
    (requirements = Str_Scenario /\ evaluation.kind # "none") =>
        (evaluation.kind = "ranking" /\ evaluation.top = "router")

\* C8 (amended): for "Need parallel execution and result synthesis" only
\* parallel_execution is detected; subagents and router tie at 5 of 5 and keep
\* the order of the matrix, so the top recommendation is subagents and router
\* is the alternative.
C8_TopIsSubagentsRouterSecond ==
    (requirements = Str_Scenario /\ evaluation.kind # "none") =>
        /\ evaluation.kind = "ranking"
        /\ evaluation.detected = {"parallel_execution"}
        /\ evaluation.top = "subagents"
        /\ evaluation.alternative = "router"
        /\ evaluation.shown[1].score = 5
        /\ evaluation.shown[2].score = 5
        /\ evaluation.shown[1].max_possible = 5

C8_Witness ==
    /\ requirements = Str_Scenario
    /\ evaluation.kind = "ranking"
    /\ \E i \in 1..Len(evaluation.shown) : evaluation.shown[i].name = "router"

\* C9: a capability is detected exactly when some phrase mapped to it occurs
\* in the text as a substring, in any letter case.
C9_DetectsExactlyTheMappedPhrases ==
    evaluation.kind # "none" =>
        /\ \A k \in 1..Len(REQUIREMENT_MAPPINGS) :
              OccursInAnyCase(requirements, REQUIREMENT_MAPPINGS[k].keyword)
                  => REQUIREMENT_MAPPINGS[k].capability \in evaluation.detected
        /\ \A c \in evaluation.detected :
              \E k \in 1..Len(REQUIREMENT_MAPPINGS) :
                  /\ REQUIREMENT_MAPPINGS[k].capability = c
                  /\ OccursInAnyCase(requirements, REQUIREMENT_MAPPINGS[k].keyword)

C9_Witness ==
    /\ evaluation.kind = "ranking"
    /\ Contains(requirements, <<"P","A","R","A","L","L","E","L">>)
    /\ "parallel_execution" \in evaluation.detected
    /\ Cardinality(evaluation.detected) >= 2

\* C10: in a ranking every pattern's score is at least 0 and at most its
\* max_possible, which is 5 times the number of detected capabilities.
C10_ScoreWithinMaxPossible ==
    evaluation.kind = "ranking" =>
        /\ Len(evaluation.sorted_patterns) = Len(PATTERN_CAPABILITIES)
        /\ \A i \in 1..Len(evaluation.sorted_patterns) :
              LET data == evaluation.sorted_patterns[i]
              IN  /\ 0 <= data.score
                  /\ data.score <= data.max_possible
                  /\ data.max_possible = 5 * Cardinality(evaluation.detected)

C10_Witness ==
    /\ evaluation.kind = "ranking"
    /\ Cardinality(evaluation.detected) >= 2
    /\ \E i \in 1..Len(evaluation.sorted_patterns) :
          evaluation.sorted_patterns[i].score = evaluation.sorted_patterns[i].max_possible
    /\ \E i \in 1..Len(evaluation.sorted_patterns) :
          evaluation.sorted_patterns[i].score = 0

\* the texts of at most n fragments
RECURSIVE TextsUpTo(_)
TextsUpTo(n) ==
    IF n = 0 THEN { <<>> }
    ELSE TextsUpTo(n - 1) \cup { t \o f : t \in TextsUpTo(n - 1), f \in Fragments }

ShorterTexts == TextsUpTo(MaxShorter)

\* the mappings whose phrase occurs in the text, in any letter case
PhrasesIn(text) ==
    { k \in 1..Len(REQUIREMENT_MAPPINGS) :
        OccursInAnyCase(text, REQUIREMENT_MAPPINGS[k].keyword) }

\* the capabilities a set of mappings maps to
CapabilitiesOf(phrases) == { REQUIREMENT_MAPPINGS[k].capability : k \in phrases }

\* what evaluate_requirements gives for each shorter text, and its phrases
ShorterEvaluation == [t \in ShorterTexts |-> evaluate_requirements(t)]
ShorterPhrases == [t \in ShorterTexts |-> PhrasesIn(t)]

\* the score a ranking gives the pattern of that name
ScoreIn(ranking, name) ==
    ranking[CHOOSE i \in 1..Len(ranking) : ranking[i].name = name].score

\* the row of the capability matrix of that name
RowOf(name) ==
    PATTERN_CAPABILITIES[CHOOSE i \in 1..Len(PATTERN_CAPABILITIES) :
                             PATTERN_CAPABILITIES[i].name = name].caps

PatternIds == { PATTERN_CAPABILITIES[i].name : i \in 1..Len(PATTERN_CAPABILITIES) }

\* C11: when the text B contains every mapped phrase that a text A contains
\* (both yielding a ranking), every pattern's score for B is at least its
\* score for A, and it is greater when B contains a phrase whose capability
\* no phrase of A maps to and which the pattern rates above 0.
C11_ScoreMonotoneInPhrases ==
    evaluation.kind = "ranking" =>
        LET phrasesB == PhrasesIn(requirements)
        IN  \A a \in ShorterTexts :
              (ShorterEvaluation[a].kind = "ranking" /\ ShorterPhrases[a] \subseteq phrasesB)
              => \A name \in PatternIds :
                    LET scoreA == ScoreIn(ShorterEvaluation[a].sorted_patterns, name)
                        scoreB == ScoreIn(evaluation.sorted_patterns, name)
                        added == CapabilitiesOf(phrasesB)
                                     \ CapabilitiesOf(ShorterPhrases[a])
                    IN  /\ scoreB >= scoreA
                        /\ (\E c \in added :
                               c \in DOMAIN RowOf(name) /\ RowOf(name)[c] > 0)
                           => scoreB > scoreA

C11_Witness ==
    /\ evaluation.kind = "ranking"
    /\ \E a \in ShorterTexts :
          /\ ShorterEvaluation[a].kind = "ranking"
          /\ ShorterPhrases[a] \subseteq PhrasesIn(requirements)
          /\ ShorterPhrases[a] # PhrasesIn(requirements)
          /\ \E name \in PatternIds :
                ScoreIn(evaluation.sorted_patterns, name)
                    > ScoreIn(ShorterEvaluation[a].sorted_patterns, name)
          /\ \E name \in PatternIds :
                ScoreIn(evaluation.sorted_patterns, name)
                    = ScoreIn(ShorterEvaluation[a].sorted_patterns, name)

Str_BuildSomethingCool ==
    <<"b","u","i","l","d"," ","s","o","m","e","t","h","i","n","g"," ","c","o","o","l">>

\* C12: evaluate_requirements returns its 'could not detect' text, with no
\* ranking, exactly when no mapped phrase is a substring of the lower-cased
\* text, and a ranking otherwise; "build something cool" gives that text.
C12_SentinelIffNoPhrase ==
    evaluation.kind # "none" =>
        /\ (evaluation.kind = "could_not_detect")
             <=> (\A k \in 1..Len(REQUIREMENT_MAPPINGS) :
                     ~Contains(Lower(requirements), REQUIREMENT_MAPPINGS[k].keyword))
        /\ evaluation.kind \in {"could_not_detect", "ranking"}
        /\ evaluation.kind = "could_not_detect" =>
              (evaluation.shown = <<>> /\ evaluation.top = "")
        /\ evaluation.kind = "ranking" =>
              (evaluation.shown # <<>> /\ evaluation.top # "")
        /\ requirements = Str_BuildSomethingCool => evaluation.kind = "could_not_detect"

C12_Witness ==
    /\ requirements = Str_BuildSomethingCool
    /\ evaluation.kind = "could_not_detect"

\* the position of a pattern in the capability matrix
MatrixIndex(name) ==
    CHOOSE i \in 1..Len(PATTERN_CAPABILITIES) : PATTERN_CAPABILITIES[i].name = name

\* the sum over the detected capabilities of the matrix value, absent as 0
ReferenceScore(name, detected) ==
    LET row == RowOf(name)
        n(v) == Cardinality({ c \in detected \cap DOMAIN row : row[c] = v })
    IN  1 * n(1) + 2 * n(2) + 3 * n(3) + 4 * n(4) + 5 * n(5)

\* C13: in a ranking every pattern appears once with the sum of its matrix
\* values over the detected capabilities (absent as 0); the patterns are in
\* descending order of score, equal scores in the order of the matrix; the
\* report shows exactly the first 5 and names the first as top recommendation.
C13_RankingIsReference ==
    evaluation.kind = "ranking" =>
        LET sp == evaluation.sorted_patterns
        IN  /\ Len(sp) = Len(PATTERN_CAPABILITIES)
            /\ { sp[i].name : i \in 1..Len(sp) } = PatternIds
            /\ \A i \in 1..Len(sp) :
                  sp[i].score = ReferenceScore(sp[i].name, evaluation.detected)
            /\ \A i, j \in 1..Len(sp) :
                  i < j => \/ sp[i].score > sp[j].score
                           \/ /\ sp[i].score = sp[j].score
                              /\ MatrixIndex(sp[i].name) < MatrixIndex(sp[j].name)
            /\ Len(evaluation.shown) = 5
            /\ \A i \in 1..5 : evaluation.shown[i] = sp[i]
            /\ evaluation.top = sp[1].name

C13_Witness ==
    /\ evaluation.kind = "ranking"
    /\ Cardinality(evaluation.detected) >= 3
    /\ evaluation.top = "handoffs"
    /\ \E i \in 1..4 :
          evaluation.shown[i].score = evaluation.shown[i + 1].score

----------------------------------------------------------------------------
(* Claims about analyze_use_case *)

\* the phrases of a pattern that occur in the text, in any letter case
PhrasesOccurring(pattern, text) ==
    LET keywords == KeywordsOf(pattern)
    IN  { keywords[i] : i \in { j \in 1..Len(keywords) : OccursInAnyCase(text, keywords[j]) } }

IndicatorPatterns == { indicators[i].pattern : i \in 1..Len(indicators) }

\* the position of a pattern in the indicators table
IndicatorIndex(pattern) ==
    CHOOSE i \in 1..Len(indicators) : indicators[i].pattern = pattern

\* C14: the ranking of analyze_use_case holds exactly the patterns with at
\* least one indicator phrase in the lower-cased text, each once and with the
\* number of its phrases that occur; it is in descending order of that number,
\* equal numbers in the order of the indicators table; its first entry is the
\* suggested starting point.
C14_RankingIsMatchCounts ==
    analysis.kind # "none" =>
        LET sm == analysis.sorted_matches
        IN  /\ { sm[i].pattern : i \in 1..Len(sm) }
                   = { p \in IndicatorPatterns : PhrasesOccurring(p, use_case) # {} }
            /\ Cardinality({ sm[i].pattern : i \in 1..Len(sm) }) = Len(sm)
            /\ \A i \in 1..Len(sm) :
                  sm[i].count = Cardinality(PhrasesOccurring(sm[i].pattern, use_case))
            /\ \A i, j \in 1..Len(sm) :
                  i < j => \/ sm[i].count > sm[j].count
                           \/ /\ sm[i].count = sm[j].count
                              /\ IndicatorIndex(sm[i].pattern) < IndicatorIndex(sm[j].pattern)
            /\ sm # <<>> => analysis.top = sm[1].pattern

C14_Witness ==
    /\ analysis.kind = "matches"
    /\ Len(analysis.sorted_matches) >= 3
    /\ analysis.sorted_matches[1].count >= 2
    /\ \E i \in 1..(Len(analysis.sorted_matches) - 1) :
          analysis.sorted_matches[i].count = analysis.sorted_matches[i + 1].count

\* C15: analyze_use_case returns its 'could not identify' text, and neither
\* an empty ranking nor an error, exactly when no indicator phrase of any
\* pattern is a substring of the lower-cased text; "build something cool"
\* gives that text.
C15_NoMatchIffNoIndicator ==
    analysis.kind # "none" =>
        /\ analysis.kind \in {"could_not_identify", "matches"}
        /\ (analysis.kind = "could_not_identify")
             <=> (\A i \in 1..Len(indicators) :
                     \A k \in 1..Len(indicators[i].keywords) :
                        ~Contains(Lower(use_case), indicators[i].keywords[k]))
        /\ analysis.kind = "matches" => analysis.sorted_matches # <<>>
        /\ use_case = Str_BuildSomethingCool => analysis.kind = "could_not_identify"

C15_Witness ==
    /\ use_case = Str_BuildSomethingCool
    /\ analysis.kind = "could_not_identify"

----------------------------------------------------------------------------
(* Claims about get_clarifying_questions *)

\* the aspects none of whose words occurs in the text, in any letter case
Unaddressed(text) ==
    { i \in 1..Len(Aspects) :
        \A k \in 1..Len(Aspects[i].markers) : ~OccursInAnyCase(text, Aspects[i].markers[k]) }

\* C16: get_clarifying_questions returns at most 4 questions, and it returns
\* its 'quite detailed' text, never an empty list of questions, exactly when
\* each of the 6 aspects has one of its words in the text.
C16_AtMostFourOrTerminal ==
    clarification.kind # "none" =>
        /\ Len(Aspects) = 6
        /\ Len(clarification.questions) <= 4
        /\ clarification.kind \in {"quite_detailed", "clarifying_questions"}
        /\ (clarification.kind = "quite_detailed")
              <=> (Unaddressed(problem_description) = {})
        /\ clarification.kind = "clarifying_questions" => clarification.questions # <<>>

C16_Witness ==
    /\ clarification.kind = "quite_detailed"
    /\ Unaddressed(problem_description) = {}

DeclaredOrder ==
    <<"Execution Model", "User Interaction", "Data Volume", "Workflow Structure",
      "Agent Count", "Response Handling">>

\* C17: the questions returned are the first 4, or all when fewer, of the
\* unaddressed aspects in the order execution model, user interaction, data
\* volume, workflow structure, agent count, response handling; with 5 or 6
\* unaddressed aspects the last 1 or 2 are left out.
C17_FirstFourUnaddressedInOrder ==
    clarification.kind # "none" =>
        LET u == Unaddressed(problem_description)
            q == clarification.questions
            n == IF Cardinality(u) < 4 THEN Cardinality(u) ELSE 4
            first == { i \in u : Cardinality({ j \in u : j < i }) < 4 }
        IN  /\ [i \in 1..Len(Aspects) |-> Aspects[i].aspect] = DeclaredOrder
            /\ Len(q) = n
            /\ { q[k] : k \in 1..Len(q) } = { DeclaredOrder[i] : i \in first }
            /\ \A k \in 1..Len(q) :
                  q[k] = DeclaredOrder[CHOOSE i \in first :
                                           Cardinality({ j \in first : j < i }) = k - 1]

C17_Witness ==
    /\ clarification.kind = "clarifying_questions"
    /\ Cardinality(Unaddressed(problem_description)) >= 5
    /\ 1 \notin Unaddressed(problem_description)
    /\ Len(clarification.questions) = 4

----------------------------------------------------------------------------
(* Claims about get_pattern_comparison *)

\* the names of the text that are no discovered pattern, as the call reads them
UnknownGiven(pattern_names_text) ==
    LET given == GivenNames(pattern_names_text)
    IN  { CompareNormalize(given[i]) :
             i \in { j \in 1..Len(given) :
                       CompareNormalize(given[j]) \notin Range(DictKeys(_patterns)) } }

WrongSize(n) == n = 0 \/ n = 1 \/ n >= 5

Str_Invalid1Invalid2 ==
    <<"i","n","v","a","l","i","d","1",",","i","n","v","a","l","i","d","2">>

\* C19: a list holding a name that is no discovered pattern is rejected with
\* the message about invalid names, which names each such name of the list
\* and no pattern, and no comparison is made; "invalid1,invalid2" names both.
C19_InvalidNamesAreNamed ==
    (ret.op = "get_pattern_comparison"
        /\ GivenNames(ret.arg) # <<>> /\ UnknownGiven(ret.arg) # {}) =>
        /\ ret.outcome = "invalid_patterns"
        /\ Range(ret.listed) = UnknownGiven(ret.arg)
        /\ Range(ret.listed) \cap Range(DictKeys(_patterns)) = {}
        /\ ret.body = <<>>
        /\ ret.arg = Str_Invalid1Invalid2 =>
              ret.listed = << <<"i","n","v","a","l","i","d","1">>,
                              <<"i","n","v","a","l","i","d","2">> >>

C19_Witness ==
    /\ ret.op = "get_pattern_comparison"
    /\ ret.outcome = "invalid_patterns"
    /\ Cardinality(Range(ret.listed)) = 2
    /\ Len(GivenNames(ret.arg)) >= 3
    /\ \E i \in 1..Len(GivenNames(ret.arg)) :
          CompareNormalize(GivenNames(ret.arg)[i]) \in Range(DictKeys(_patterns))

----------------------------------------------------------------------------
(* Claims about documents without a header *)

\* the discovered patterns that carry the placeholder title
PlaceholderEntries ==
    { i \in 1..Len(_patterns) : _patterns[i].title = Str_UnknownPattern }

\* the name written in the header of a well-formed document of that file
StemOf(f) == PatternNames[FileIndex(f)]

Str_UnknownAndHandoffs ==
    <<"u","n","k","n","o","w","n",",","h","a","n","d","o","f","f","s">>

----------------------------------------------------------------------------
(* Claims about discovery and search *)

\* the documents that are in the directory
PresentFiles == { f \in KnowledgeFiles : files[f] \notin {NoFile, "nodir"} }

\* C21: after discovery the names of the patterns are distinct and each
\* document of the directory, with or without a header, with or without a
\* name of its own, is the document of exactly one pattern.
C21_EachDocumentIsOnePattern ==
    /\ \A i, j \in 1..Len(_patterns) :
          _patterns[i].name = _patterns[j].name => i = j
    /\ \A f \in PresentFiles :
          Cardinality({ i \in 1..Len(_patterns) : _patterns[i].path = f }) = 1

\* C22: without a knowledge directory discovery gives no pattern and raises
\* nothing, and no call raises because a document is missing when it is read.
C22_MissingIsNeverRaised ==
    /\ ~DirectoryExists(files) => _patterns = <<>>
    /\ ret.outcome # "raised"

\* the discovered patterns whose document holds the query, in any letter
\* case, in the order of discovery; a document that is gone holds nothing
Holding(dir, query) ==
    SelectSeq(_patterns,
              LAMBDA e : /\ dir[e.path] # NoFile
                         /\ OccursInAnyCase(ContentChars(ReadText(dir, e.path)), query))

\* the greatest number of occurrences of the query in the text, in any
\* letter case, no two of which overlap
Occurrences(text, query) ==
    LET at == { i \in 0..(Len(text) - Len(query)) :
                  \A j \in 1..Len(query) : SameLetter(text[i + j], query[j]) }
        apart(S) == \A x, y \in S : x # y => (x - y >= Len(query) \/ y - x >= Len(query))
        sizes == { Cardinality(S) : S \in { T \in SUBSET at : apart(T) } }
    IN  CHOOSE n \in sizes : \A m \in sizes : m <= n

\* what C23 says of a call of search_patterns that found the directory dir
SearchIsRanked(dir, r) ==
    LET holding == Holding(dir, r.arg)
    IN  /\ r.outcome \in {"results", "no_patterns_found"}
        /\ r.outcome = "no_patterns_found" <=> holding = <<>>
        /\ Len(r.body) = Len(holding)
        /\ { r.body[i].name : i \in 1..Len(r.body) }
               = { holding[i].name : i \in 1..Len(holding) }
        /\ \A i \in 1..Len(r.body) :
              r.body[i].matches
                  = Occurrences(ContentChars(ReadText(dir,
                                    DictGet(_patterns, r.body[i].name).path)), r.arg)
        /\ \A i, j \in 1..Len(r.body) :
              i < j =>
                 \/ r.body[i].matches > r.body[j].matches
                 \/ /\ r.body[i].matches = r.body[j].matches
                    /\ \E a, b \in 1..Len(_patterns) :
                          /\ a < b
                          /\ _patterns[a].name = r.body[i].name
                          /\ _patterns[b].name = r.body[j].name

\* C23: a call of search_patterns returns each pattern whose document holds
\* the query in any letter case, by descending number of occurrences, equal
\* numbers in the order of discovery, and its 'no patterns found' text, not
\* an error, when no document holds the query.
C23_SearchIsRanked ==
    [][(ret'.op = "search_patterns" /\ files' = files) => SearchIsRanked(files', ret')]_vars

\* C23, for the calls made while each discovered document can be read
C23_SearchIsRankedWhenReadable ==
    [][(ret'.op = "search_patterns" /\ files' = files /\ ~SearchReadRaises)
          => SearchIsRanked(files', ret')]_vars

----------------------------------------------------------------------------
(* Claims about documents that change and about the listing *)

Str_New == <<"N","e","w">>

\* the body of the document f as it is in the directory dir
BodyNow(dir, f) ==
    CASE dir[f] = "edited" -> <<Heading("When to Use"), Text("now use " \o f)>>
      [] dir[f] = "noheader" -> BodyOf(f)
      [] OTHER -> SubSeq(BodyOf(f), 2, Len(BodyOf(f)) - 1)

\* the rows of a listing, group after group
RECURSIVE RowsOf(_)
RowsOf(groups) ==
    IF groups = <<>> THEN <<>> ELSE Head(groups).patterns \o RowsOf(Tail(groups))

\* C24: no call and no change of a document changes the discovered
\* patterns; load_pattern, list_all_patterns and get_pattern_comparison
\* report the title, category and complexity that were discovered, also of a
\* document rewritten since, while the body load_pattern returns (and the
\* excerpt of the comparison) is that of the document as it is at the call.
C24_DiscoveryFrozenBodiesFresh ==
    [][/\ _patterns' = _patterns
       /\ (files' = files /\ ret'.op = "load_pattern" /\ ret'.outcome = "loaded") =>
             LET e == DictGet(_patterns, NormalizeName(ret'.arg))
             IN  /\ ret'.title = e.title
                 /\ ret'.category = e.category
                 /\ ret'.complexity = e.complexity
                 /\ ret'.title # Str_New
                 /\ ret'.body = BodyNow(files', e.path)
       /\ (files' = files /\ ret'.op = "list_all_patterns") =>
             LET rows == RowsOf(ret'.body)
             IN  /\ { <<rows[i].name, rows[i].title, rows[i].complexity>> :
                         i \in 1..Len(rows) }
                       = { <<_patterns[i].name, _patterns[i].title,
                             _patterns[i].complexity>> : i \in 1..Len(_patterns) }
                 /\ \A i \in 1..Len(rows) : rows[i].title # Str_New
       /\ (files' = files /\ ret'.op = "get_pattern_comparison"
              /\ ret'.outcome = "comparison") =>
             \A i \in 1..Len(ret'.body) :
                LET e == DictGet(_patterns, ret'.body[i].name)
                IN  /\ ret'.body[i].title = e.title
                    /\ ret'.body[i].category = e.category
                    /\ ret'.body[i].complexity = e.complexity
                    /\ ret'.body[i].title # Str_New
                    /\ ret'.body[i].when_to_use
                           = SubSeq(BodyNow(files', e.path), 1, 2)
      ]_vars

C24_Witness ==
    /\ ret.op = "load_pattern"
    /\ ret.outcome = "loaded"
    /\ ret.arg = Str_handoffs
    /\ files["handoffs.md"] = "edited"
    /\ ret.title = <<"H","a","n","d","o","f","f","s">>
    /\ ret.body = <<Heading("When to Use"), Text("now use handoffs.md")>>

\* C30: the loaded list never holds a name twice nor a name that is no
\* discovered pattern, and in a listing the number after 'Loaded:' and the
\* patterns marked (LOADED) are those of the list.
C30_LoadedListAgreesWithListing ==
    /\ \A i, j \in 1..Len(_loaded_patterns) :
          _loaded_patterns[i] = _loaded_patterns[j] => i = j
    /\ Range(_loaded_patterns) \subseteq Range(DictKeys(_patterns))
    /\ ret.op = "list_all_patterns" =>
          LET rows == RowsOf(ret.body)
              marked == { i \in 1..Len(rows) : rows[i].marked }
          IN  /\ ret.loaded = Cardinality(Range(_loaded_patterns))
              /\ Cardinality(marked) = ret.loaded
              /\ { rows[i].name : i \in marked } = Range(_loaded_patterns)
              /\ ret.total = Len(rows)

C30_Witness ==
    /\ ret.op = "list_all_patterns"
    /\ ret.outcome = "listing"
    /\ ret.loaded = 2
    /\ Len(_loaded_patterns) = 2
    /\ \E i \in 1..Len(RowsOf(ret.body)) : ~RowsOf(ret.body)[i].marked

----------------------------------------------------------------------------
(* Claims about the spelling of names *)

\* a spelling in lower case with each underscore and each space as a hyphen
Canonical(spelling) ==
    [i \in 1..Len(spelling) |->
        IF spelling[i] \in {"_", " "} THEN "-"
        ELSE IF \E k \in 1..26 : UpperLetters[k] = spelling[i]
             THEN LowerLetters[CHOOSE k \in 1..26 : UpperLetters[k] = spelling[i]]
             ELSE spelling[i]]

\* C25: load_pattern under a spelling whose lower-case, hyphenated form is a
\* discovered name finds the pattern; when the document was read that form,
\* not the spelling, is in the loaded list, once; and when that form was in
\* the list already, under whichever spelling it came, the call reports
\* 'already loaded' and the list is as before.
C25_SpellingsResolveToOneName ==
    (ret.op = "load_pattern" /\ DictHas(_patterns, Canonical(ret.arg))) =>
        LET id == Canonical(ret.arg)
        IN  /\ ret.outcome \in {"loaded", "already_loaded", "raised"}
            /\ ret.outcome = "already_loaded" <=> InList(ret.was, id)
            /\ ret.outcome = "already_loaded" => _loaded_patterns = ret.was
            /\ ret.outcome = "loaded" => _loaded_patterns = Append(ret.was, id)
            /\ ret.outcome # "raised" =>
                  Cardinality({ i \in 1..Len(_loaded_patterns) :
                                  _loaded_patterns[i] = id }) = 1
            /\ \A i \in 1..Len(_loaded_patterns) :
                  _loaded_patterns[i] = Canonical(_loaded_patterns[i])

C25_Witness ==
    /\ ret.op = "load_pattern"
    /\ ret.arg = <<"d","e","e","p"," ","a","g","e","n","t","s">>
    /\ ret.outcome = "already_loaded"
    /\ InList(history, <<"d","e","e","p","-","a","g","e","n","t","s">>)
    /\ Len(_loaded_patterns) >= 2


----------------------------------------------------------------------------
(* The retry wrapper: src/agentic_patterns/core/utils.py                   *)
(* with_retry_and_fallback builds a closure; a call of the closure walks   *)
(* the loop of lines 87-99.  The two callables are the environment: each   *)
(* call of them either returns or raises an Exception.                     *)

\* the tools of the pattern selector are idle in the specifications of the
\* library code
SelectorIdle ==
    /\ TrackerIdle
    /\ requirements = <<>>
    /\ evaluation = NoEvaluation
    /\ use_case = <<>>
    /\ analysis = NoAnalysis
    /\ problem_description = <<>>
    /\ clarification = NoClarificationYet

MaxRetries == 3

\* the values of max_retries a wrapper is built with: range(max_retries + 1)
\* is empty for -1
RetryCounts == -1 .. MaxRetries

\* the argument the wrapper passes on to both callables
RetryArgs == {"query_a", "query_b"}

initial_delay == 1

backoff_factor == 2

\* utils.py:87  the attempts of the loop, in order
AttemptRange(max_retries) == 0 .. max_retries

Exhausted_OneEarly(attempt, max_retries) == attempt + 1 >= max_retries

\* utils.py:91  the attempt that just failed was the last one
Exhausted(attempt, max_retries) == attempt = max_retries

\* utils.py:57-101  the closure of a built wrapper
Wrapper(max_retries, fallback_fn) ==
    [NoWrapper EXCEPT !.pc = "built", !.max_retries = max_retries,
                      !.fallback_fn = fallback_fn]

\* the exception object a call of a callable raises: which callable, and the
\* how-manieth call of the wrapper's run it was
ExceptionOf(fn, w) ==
    <<fn, 1 + Cardinality({i \in 1..Len(w.calls) : w.calls[i].fn = fn})>>

Called(w, fn, args, outcome) ==
    Append(w.calls, [fn |-> fn, args |-> args, outcome |-> outcome])

\* utils.py:84-87  the wrapper is called: delay is set and the loop is entered;
\* an empty range falls through to the end of the function, which returns None
wrapper_enter(w, args) ==
    LET started == [w EXCEPT !.args = args, !.delay = initial_delay, !.attempt = 0,
                             !.e = <<>>, !.result = "", !.raised = <<>>,
                             !.calls = <<>>]
    IN  IF AttemptRange(w.max_retries) = {}
        THEN [started EXCEPT !.pc = "returned", !.result = "None"]
        ELSE [started EXCEPT !.pc = "primary"]

\* utils.py:88-99  one pass of the loop body: primary_fn returns or raises
wrapper_attempt(w, outcome) ==
    LET called == [w EXCEPT !.calls = Called(w, "primary_fn", w.args, outcome)]
        e == ExceptionOf("primary_fn", w)
    IN  IF outcome = "returns"
        THEN [called EXCEPT !.pc = "returned", !.result = "primary_fn"]
        ELSE IF Exhausted(w.attempt, w.max_retries)
             THEN IF w.fallback_fn
                  THEN [called EXCEPT !.pc = "fallback", !.e = e]
                  ELSE [called EXCEPT !.pc = "raised", !.e = e, !.raised = e]
             ELSE [called EXCEPT !.e = e, !.attempt = w.attempt + 1,
                                 !.delay = w.delay * backoff_factor]

\* utils.py:93-96  fallback_fn returns, or raises and e is raised in its place
wrapper_fallback(w, outcome) ==
    LET called == [w EXCEPT !.calls = Called(w, "fallback_fn", w.args, outcome)]
    IN  IF outcome = "returns"
        THEN [called EXCEPT !.pc = "returned", !.result = "fallback_fn"]
        ELSE [called EXCEPT !.pc = "raised", !.raised = w.e]

CallOutcomes == {"returns", "raises"}

\* the wrapper has been built and not called
RetryInit ==
    /\ SelectorIdle
    /\ PipelineIdle
    /\ SupportIdle
    /\ SkillsIdle
    /\ \E m \in RetryCounts, f \in BOOLEAN : retry = Wrapper(m, f)

\* a caller calls the wrapper: a first time, or again after the last call ended
CallWrapper(args) ==
    /\ retry.pc \in {"built", "returned", "raised"}
    /\ retry' = wrapper_enter(retry, args)
    /\ UNCHANGED <<selectorVars, pipelineVars, supportVars, skillsVars>>

PrimaryAttempt(outcome) ==
    /\ retry.pc = "primary"
    /\ retry' = wrapper_attempt(retry, outcome)
    /\ UNCHANGED <<selectorVars, pipelineVars, supportVars, skillsVars>>

FallbackAttempt(outcome) ==
    /\ retry.pc = "fallback"
    /\ retry' = wrapper_fallback(retry, outcome)
    /\ UNCHANGED <<selectorVars, pipelineVars, supportVars, skillsVars>>

RetryNext ==
    \/ \E a \in RetryArgs : CallWrapper(a)
    \/ \E o \in CallOutcomes : PrimaryAttempt(o)
    \/ \E o \in CallOutcomes : FallbackAttempt(o)

RetrySpec == RetryInit /\ [][RetryNext]_vars

----------------------------------------------------------------------------
(* Claims about the retry wrapper *)

CallsOf(fn) == {i \in 1..Len(retry.calls) : retry.calls[i].fn = fn}

PrimaryFailures ==
    {i \in CallsOf("primary_fn") : retry.calls[i].outcome = "raises"}

\* C26: the wrapper calls primary_fn at most max_retries + 1 times and makes no
\* call after a primary_fn that returned; it calls fallback_fn at most once, and
\* only after max_retries + 1 calls of primary_fn that all raised; when the
\* wrapper raises, the exception is the one the last of the max_retries + 1
\* calls of primary_fn raised, whether fallback_fn raised or was not given.
C26_RetryThenFallbackOnce ==
    /\ Cardinality(CallsOf("primary_fn")) <= retry.max_retries + 1
    /\ \A i \in CallsOf("primary_fn") :
          retry.calls[i].outcome = "returns" =>
              i = Len(retry.calls) /\ retry.pc = "returned" /\ retry.result = "primary_fn"
    /\ Cardinality(CallsOf("fallback_fn")) <= 1
    /\ \A i \in CallsOf("fallback_fn") :
          /\ retry.fallback_fn
          /\ i = retry.max_retries + 2
          /\ PrimaryFailures = 1 .. retry.max_retries + 1
    /\ retry.pc = "raised" =>
          /\ PrimaryFailures = 1 .. retry.max_retries + 1
          /\ retry.raised = <<"primary_fn", retry.max_retries + 1>>
          /\ IF retry.fallback_fn
             THEN retry.calls[Len(retry.calls)] =
                      [fn |-> "fallback_fn", args |-> retry.args, outcome |-> "raises"]
             ELSE CallsOf("fallback_fn") = {}

\* every attempt of a wrapper with the most retries raised, and so did its fallback
C26_Witness ==
    /\ retry.pc = "raised"
    /\ retry.max_retries = MaxRetries
    /\ retry.fallback_fn
    /\ Len(retry.calls) = MaxRetries + 2


----------------------------------------------------------------------------
(* The content pipeline: examples/custom_workflow_content_pipeline.py      *)
(* A run of the compiled graph executes one node at a time and merges the  *)
(* keys the node returns into the ContentState.  The texts the language    *)
(* model writes are the environment: a draft is known by its number, a     *)
(* review by the verdict and the scores that lines 190-201 parse from it.  *)
(* seo_score is kept in tenths.                                            *)

\* state/content.py:36-67  CONTENT_CONFIGS[...]['seo_required']
SeoRequiredTypes == {"blog", "press_release"}

\* pipeline:150  CONTENT_CONFIGS.get(content_type, CONTENT_CONFIGS['blog'])
ConfigKey(content_type) ==
    IF content_type \in {"blog", "social_twitter", "social_linkedin", "email",
                         "press_release"}
    THEN content_type ELSE "blog"

seo_required(content_type) == ConfigKey(content_type) \in SeoRequiredTypes

\* the content types a run is started with; "newsletter" has no configuration
ContentTypes == {"blog", "email", "newsletter"}

\* the word counts of the drafts the model writes
WordCounts == {40, 900}

\* the integers the review gives as scores
ScoreValues == {3, 4}

DefaultOverall == 5

\* pipeline:190-198  what the parse of a review yields: a dict with the keys
\* of the score lines in the order met, or {"overall": 5} when int() raised
ParsedScores ==
    LET overall == { <<[name |-> "overall", score |-> v]>> : v \in ScoreValues }
        seo == { <<[name |-> "seo", score |-> v]>> : v \in ScoreValues }
    IN  {<<>>} \cup overall \cup seo \cup { o \o x : o \in overall, x \in seo }
        \cup { <<[name |-> "overall", score |-> DefaultOverall]>> }

\* pipeline:201  the two verdicts
Verdicts == {"approved", "needs_revision"}

\* dict.get(key, default) on a dict of scores
ScoreGet(scores, key, default) ==
    IF DictHas(scores, key) THEN DictGet(scores, key).score ELSE default

Ran(p, node, state) ==
    [p EXCEPT !.state = state,
              !.trace = Append(p.trace, [node |-> node, status |-> state.status])]

\* pipeline:30-57
research_topic(state) ==
    [state EXCEPT !.research_notes = TRUE, !.status = "outlining"]

\* pipeline:60-90
create_outline(state) ==
    [state EXCEPT !.outline = TRUE, !.status = "drafting"]

\* pipeline:93-145
write_draft(state, word_count) ==
    [state EXCEPT !.draft = state.draft + 1, !.word_count = word_count,
                  !.status = "reviewing"]

\* pipeline:148-212
review_content(state, verdict, scores) ==
    [state EXCEPT !.review_feedback = state.draft,
                  !.quality_scores = scores,
                  !.seo_score = IF seo_required(state.content_type)
                                THEN ScoreGet(scores, "seo", 0) ELSE 10,
                  !.revision_count = state.revision_count + 1,
                  !.status = verdict]

\* pipeline:215-233
finalize_content(state) ==
    [state EXCEPT !.final_content = "polished", !.status = "completed"]

\* pipeline:236-249
handle_rejection(state) ==
    [state EXCEPT !.final_content = "could_not_meet_standards", !.status = "rejected"]

max_revisions_Four == 3 + 1

max_revisions == 3

LowScore == 3

LowScoreRevisions == 2

\* pipeline:256-272
route_after_review(state) ==
    IF state.status = "approved" THEN "finalize"
    ELSE IF state.revision_count >= max_revisions THEN "reject"
    ELSE IF /\ ScoreGet(state.quality_scores, "overall", DefaultOverall) <= LowScore
            /\ state.revision_count >= LowScoreRevisions
         THEN "reject"
    ELSE "revise"

\* pipeline:296-304  the path map of the conditional edge
PathMap(route) ==
    CASE route = "finalize" -> "finalize"
      [] route = "revise" -> "write"
      [] route = "reject" -> "reject"

\* pipeline:339-346  create_content invokes the graph; START leads to research
PipelineInit ==
    /\ SelectorIdle
    /\ RetryIdle
    /\ SupportIdle
    /\ SkillsIdle
    /\ \E c \in ContentTypes :
          pipeline = [NoPipeline EXCEPT !.node = "research",
                                        !.state.content_type = c,
                                        !.state.revision_count = 0]

Research ==
    /\ pipeline.node = "research"
    /\ pipeline' = [Ran(pipeline, "research", research_topic(pipeline.state))
                       EXCEPT !.node = "outline"]
    /\ UNCHANGED <<selectorVars, retryVars, supportVars, skillsVars>>

Outline ==
    /\ pipeline.node = "outline"
    /\ pipeline' = [Ran(pipeline, "outline", create_outline(pipeline.state))
                       EXCEPT !.node = "write"]
    /\ UNCHANGED <<selectorVars, retryVars, supportVars, skillsVars>>

Write(word_count) ==
    /\ pipeline.node = "write"
    /\ pipeline' = [Ran(pipeline, "write", write_draft(pipeline.state, word_count))
                       EXCEPT !.node = "review"]
    /\ UNCHANGED <<selectorVars, retryVars, supportVars, skillsVars>>

\* the review node, and the conditional edge that leaves it
Review(verdict, scores) ==
    /\ pipeline.node = "review"
    /\ LET state == review_content(pipeline.state, verdict, scores)
       IN  pipeline' = [Ran(pipeline, "review", state)
                           EXCEPT !.node = PathMap(route_after_review(state))]
    /\ UNCHANGED <<selectorVars, retryVars, supportVars, skillsVars>>

Finalize ==
    /\ pipeline.node = "finalize"
    /\ pipeline' = [Ran(pipeline, "finalize", finalize_content(pipeline.state))
                       EXCEPT !.node = "END"]
    /\ UNCHANGED <<selectorVars, retryVars, supportVars, skillsVars>>

Reject ==
    /\ pipeline.node = "reject"
    /\ pipeline' = [Ran(pipeline, "reject", handle_rejection(pipeline.state))
                       EXCEPT !.node = "END"]
    /\ UNCHANGED <<selectorVars, retryVars, supportVars, skillsVars>>

PipelineNext ==
    \/ Research
    \/ Outline
    \/ \E w \in WordCounts : Write(w)
    \/ \E v \in Verdicts, q \in ParsedScores : Review(v, q)
    \/ Finalize
    \/ Reject

\* app.invoke runs the node that is next until END is reached
PipelineSpec == PipelineInit /\ [][PipelineNext]_vars /\ WF_vars(PipelineNext)

----------------------------------------------------------------------------
(* Claims about the content pipeline *)

RunsOf(node) == {i \in 1..Len(pipeline.trace) : pipeline.trace[i].node = node}

\* the run ended through the node `last`, which ran right after a review
EndedThrough(last) ==
    LET n == Len(pipeline.trace)
    IN  /\ n >= 2
        /\ pipeline.trace[n].node = last
        /\ pipeline.trace[n - 1].node = "review"

LastVerdict == pipeline.trace[Len(pipeline.trace) - 1].status

C27_Bounded ==
    /\ Cardinality(RunsOf("review")) <= 3
    /\ pipeline.state.revision_count <= 3
    /\ pipeline.state.revision_count = Cardinality(RunsOf("review"))
    /\ pipeline.node = "END" =>
          \/ /\ pipeline.state.status = "completed"
             /\ EndedThrough("finalize")
             /\ LastVerdict = "approved"
          \/ /\ pipeline.state.status = "rejected"
             /\ EndedThrough("reject")
             /\ LastVerdict # "approved"

\* C27: in every run of the content pipeline, whatever verdicts and scores the
\* reviews give, the review node runs at most 3 times and revision_count never
\* exceeds 3, and the run reaches END; at END the status is "completed", set by
\* finalize right after an approved review, or "rejected", set by reject right
\* after a review that was not approved.
C27_PipelineTerminates ==
    /\ []C27_Bounded
    /\ <>(pipeline.node = "END")

\* a run was rejected after its third review
C27_Witness ==
    /\ pipeline.node = "END"
    /\ pipeline.state.status = "rejected"
    /\ pipeline.state.revision_count = 3
    /\ Cardinality(RunsOf("write")) = 3


----------------------------------------------------------------------------
(* The customer-support state machine: src/agentic_patterns/agents/support.py, *)
(* tools/support/*.py, examples/handoffs_customer_support.py               *)
(* The agent is built with every tool of SUPPORT_TOOLS; which tool is      *)
(* called next, and with which arguments, is the language model's choice.  *)
(* A Command's update is merged into the SupportState; a key that was      *)
(* never set reads as None.                                                *)

MaxTickets == 1

\* workflow.py:15-32  CUSTOMERS
CustomerIds == {"C001", "C002"}

CustomerName(customer_id) ==
    CASE customer_id = "C001" -> "Alice Johnson"
      [] customer_id = "C002" -> "Bob Smith"

\* the ids a caller gives to lookup_customer; "C999" is no customer
GivenCustomerIds == {"C001", "C999"}

\* the id the billing tools are called with
BilledCustomerIds == {"C001"}

\* state/support.py:34,36  the Literal types of classify_issue's arguments
IssueTypes == {"billing", "technical", "general"}

Priorities == {"urgent"}

Descriptions == {"charged twice"}

\* resolution.py:15  the Literal type of escalate_to_specialist's argument
Specialists == {"billing_specialist", "tech_support", "resolution"}

\* the amounts and percentages asked for, on both sides of each limit
RefundAmounts == {30, 150}

DiscountPercents == {10, 30}

RefundLimit == 100

DiscountLimit == 20

\* workflow.py:35, tech.py:13  the counters at module load
TicketBase == 1000

EngTicketBase == 1000

\* agents/support.py:110-138
STEP_CONFIG ==
    [greeting |->
        [tools |-> {"lookup_customer"}, requires |-> <<>>],
     issue_collector |->
        [tools |-> {"classify_issue"}, requires |-> <<"customer_id", "customer_name">>],
     billing_specialist |->
        [tools |-> {"check_billing_history", "process_refund", "apply_discount",
                    "escalate_to_specialist", "resolve_ticket"},
         requires |-> <<"customer_id", "issue_description">>],
     tech_support |->
        [tools |-> {"run_diagnostics", "check_service_status",
                    "create_engineering_ticket", "escalate_to_specialist",
                    "resolve_ticket"},
         requires |-> <<"customer_id", "issue_description">>],
     resolution |->
        [tools |-> {"resolve_ticket", "escalate_to_specialist"},
         requires |-> <<"customer_id">>]]

\* agents/support.py:153  state.get("current_step", "greeting")
CurrentStep(state) ==
    IF state.current_step = "None" THEN "greeting" ELSE state.current_step

\* agents/support.py:157-159  the required keys that are None, in the order of
\* the requires list
MissingKeys(state, requires) ==
    SelectSeq(requires, LAMBDA key : state[key] = "None")

\* agents/support.py:141-179
get_step_config(state) ==
    LET current_step == CurrentStep(state)
        config == STEP_CONFIG[current_step]
        missing == MissingKeys(state, config.requires)
    IN  IF missing # <<>>
        THEN [outcome |-> "ValueError", key |-> missing[1], tools |-> {}]
        ELSE [outcome |-> "config", key |-> "", tools |-> config.tools]

\* a ToolMessage is appended to the messages; a step configuration asked for
\* before was that of the state before
Said(s, tool, content) ==
    [s EXCEPT !.message = [tool |-> tool, content |-> content],
              !.config = NoSupport.config]

\* workflow.py:45-73
lookup_customer(s, customer_id) ==
    IF customer_id \notin CustomerIds
    THEN Said(s, "lookup_customer", "not found")
    ELSE [Said(s, "lookup_customer", "Found customer")
             EXCEPT !.state.customer_id = customer_id,
                    !.state.customer_name = CustomerName(customer_id),
                    !.state.current_step = "issue_collector"]

\* workflow.py:93-97
NextStep(issue_type) ==
    CASE issue_type = "billing" -> "billing_specialist"
      [] issue_type = "technical" -> "tech_support"
      [] issue_type = "general" -> "resolution"
      [] OTHER -> "resolution"

\* workflow.py:76-110, with _get_next_ticket_id of lines 38-42
classify_issue(s, issue_type, description, priority) ==
    LET counter == s._ticket_counter + 1
        ticket_id == "TKT-" \o ToString(counter)
    IN  [Said(s, "classify_issue", "Issue classified")
            EXCEPT !._ticket_counter = counter,
                   !.state.issue_type = issue_type,
                   !.state.issue_description = description,
                   !.state.priority = priority,
                   !.state.ticket_id = ticket_id,
                   !.state.current_step = NextStep(issue_type)]

\* billing.py:17-29
check_billing_history(s, customer_id) ==
    Said(s, "check_billing_history", "Billing History for " \o customer_id)

\* billing.py:32-61
process_refund(s, customer_id, amount) ==
    IF amount > RefundLimit
    THEN Said(s, "process_refund", "exceeds limit")
    ELSE [Said(s, "process_refund", "processed")
             EXCEPT !.state.resolution_status =
                        "Refund of $" \o ToString(amount) \o ".00 processed"]

\* billing.py:64-93
apply_discount(s, customer_id, discount_percent) ==
    IF discount_percent > DiscountLimit
    THEN Said(s, "apply_discount", "exceeds limit")
    ELSE [Said(s, "apply_discount", "applied")
             EXCEPT !.state.resolution_status =
                        ToString(discount_percent) \o "% discount applied"]

\* tech.py:23-36
run_diagnostics(s) == Said(s, "run_diagnostics", "Diagnostic Results")

\* tech.py:39-49
check_service_status(s) == Said(s, "check_service_status", "Current Service Status")

\* tech.py:52-76, with _get_next_eng_ticket_id of lines 16-20
create_engineering_ticket(s) ==
    LET counter == s._eng_ticket_counter + 1
        eng_ticket == "ENG-" \o ToString(counter)
    IN  [Said(s, "create_engineering_ticket", "created")
            EXCEPT !._eng_ticket_counter = counter,
                   !.state.resolution_status =
                       "Escalated to engineering (" \o eng_ticket \o ")"]

\* resolution.py:13-29
escalate_to_specialist(s, specialist) ==
    [Said(s, "escalate_to_specialist", "Handing off")
        EXCEPT !.state.current_step = specialist]

\* resolution.py:32-52
resolve_ticket(s, resolution_summary) ==
    [Said(s, "resolve_ticket", "Ticket resolved")
        EXCEPT !.state.current_step = "resolution",
               !.state.resolution_status = resolution_summary]

\* handoffs_customer_support.py:68-72  a new session: only current_step is set
SupportInit ==
    /\ SelectorIdle
    /\ RetryIdle
    /\ PipelineIdle
    /\ SkillsIdle
    /\ support = [NoSupport EXCEPT !.state.current_step = "greeting",
                                   !._ticket_counter = TicketBase,
                                   !._eng_ticket_counter = EngTicketBase]

LookupCustomer(customer_id) ==
    /\ support' = lookup_customer(support, customer_id)
    /\ UNCHANGED <<selectorVars, retryVars, pipelineVars, skillsVars>>

ClassifyIssue(issue_type, description, priority) ==
    /\ support._ticket_counter < TicketBase + MaxTickets
    /\ support' = classify_issue(support, issue_type, description, priority)
    /\ UNCHANGED <<selectorVars, retryVars, pipelineVars, skillsVars>>

CheckBillingHistory(customer_id) ==
    /\ support' = check_billing_history(support, customer_id)
    /\ UNCHANGED <<selectorVars, retryVars, pipelineVars, skillsVars>>

ProcessRefund(customer_id, amount) ==
    /\ support' = process_refund(support, customer_id, amount)
    /\ UNCHANGED <<selectorVars, retryVars, pipelineVars, skillsVars>>

ApplyDiscount(customer_id, discount_percent) ==
    /\ support' = apply_discount(support, customer_id, discount_percent)
    /\ UNCHANGED <<selectorVars, retryVars, pipelineVars, skillsVars>>

RunDiagnostics ==
    /\ support' = run_diagnostics(support)
    /\ UNCHANGED <<selectorVars, retryVars, pipelineVars, skillsVars>>

CheckServiceStatus ==
    /\ support' = check_service_status(support)
    /\ UNCHANGED <<selectorVars, retryVars, pipelineVars, skillsVars>>

CreateEngineeringTicket ==
    /\ support._eng_ticket_counter < EngTicketBase + MaxTickets
    /\ support' = create_engineering_ticket(support)
    /\ UNCHANGED <<selectorVars, retryVars, pipelineVars, skillsVars>>

EscalateToSpecialist(specialist) ==
    /\ support' = escalate_to_specialist(support, specialist)
    /\ UNCHANGED <<selectorVars, retryVars, pipelineVars, skillsVars>>

ResolveTicket(resolution_summary) ==
    /\ support' = resolve_ticket(support, resolution_summary)
    /\ UNCHANGED <<selectorVars, retryVars, pipelineVars, skillsVars>>

\* the step configuration of the state is asked for
GetStepConfig ==
    /\ support' = [support EXCEPT !.config = get_step_config(support.state)]
    /\ UNCHANGED <<selectorVars, retryVars, pipelineVars, skillsVars>>

SupportNext ==
    \/ \E c \in GivenCustomerIds : LookupCustomer(c)
    \/ \E t \in IssueTypes, d \in Descriptions, p \in Priorities : ClassifyIssue(t, d, p)
    \/ \E c \in BilledCustomerIds : CheckBillingHistory(c)
    \/ \E c \in BilledCustomerIds, a \in RefundAmounts : ProcessRefund(c, a)
    \/ \E c \in BilledCustomerIds, d \in DiscountPercents : ApplyDiscount(c, d)
    \/ RunDiagnostics
    \/ CheckServiceStatus
    \/ CreateEngineeringTicket
    \/ \E x \in Specialists : EscalateToSpecialist(x)
    \/ ResolveTicket("resolved by refund")
    \/ GetStepConfig

SupportSpec == SupportInit /\ [][SupportNext]_vars

----------------------------------------------------------------------------
(* Claims about the customer-support state machine *)

\* C28: in every state the support workflow reaches from current_step =
\* greeting with no field set, by any sequence of calls of the agent's tools,
\* every key that STEP_CONFIG requires for the current step is set, and
\* get_step_config does not raise ValueError.
C28_RequiredFieldsAreSet ==
    LET requires == STEP_CONFIG[CurrentStep(support.state)].requires
    IN  /\ \A i \in 1..Len(requires) : support.state[requires[i]] # "None"
        /\ get_step_config(support.state).outcome # "ValueError"
        /\ support.config.outcome # "ValueError"


----------------------------------------------------------------------------
(* The skills tracker: src/agentic_patterns/tools/code/skills.py           *)
(* A skills directory holds one folder per skill; a folder counts when it  *)
(* holds a SKILL.md.  The directories are the environment and do not       *)
(* change; set_skills_directory moves the module from one to another.      *)

\* the paths a caller gives to set_skills_directory; "missing" does not exist
SkillPaths == {"skills", "team_skills", "missing"}

SkillsDirExists(path) == path # "missing"

Str_PythonExpert == Chars("python-expert")

Str_GoExpert == Chars("go-expert")

\* the folders of a directory: whether each holds a SKILL.md, and the name its
\* frontmatter gives ("" when SKILL.md has no frontmatter)
SkillFolders(path) ==
    CASE path = "skills" ->
           { [folder |-> Str_PythonExpert, skill_file |-> TRUE,
              name |-> Chars("Python Expert")],
             [folder |-> Str_GoExpert, skill_file |-> TRUE, name |-> Chars("Go Expert")],
             [folder |-> Chars("drafts"), skill_file |-> FALSE, name |-> <<>>] }
      [] path = "team_skills" ->
           { [folder |-> Str_GoExpert, skill_file |-> TRUE, name |-> <<>>] }
      [] OTHER -> {}

\* the orders in which iterdir() can yield the folders of a directory
IterdirOrders(path) ==
    LET fs == SkillFolders(path)
    IN  { order \in [1..Cardinality(fs) -> fs] :
            \A i, j \in 1..Cardinality(fs) : i # j => order[i] # order[j] }

\* skills.py:46-75  the name parse_skill_frontmatter gives for a SKILL.md
ParsedSkillName(folder) == IF folder.name = <<>> THEN Str_unknown ELSE folder.name

SkillKeys(skills) == [i \in 1..Len(skills) |-> skills[i].skill_id]

SkillHas(skills, skill_id) == \E i \in 1..Len(skills) : skills[i].skill_id = skill_id

SkillGet(skills, skill_id) ==
    skills[CHOOSE i \in 1..Len(skills) : skills[i].skill_id = skill_id]

\* skills.py:91-103  the loop of discover_skills; folder names are unique, so
\* every key is new
RECURSIVE DiscoverSkillsLoop(_, _, _)
DiscoverSkillsLoop(path, order, skills) ==
    IF order = <<>> THEN skills
    ELSE LET skill_dir == Head(order)
         IN  DiscoverSkillsLoop(path, Tail(order),
                 IF skill_dir.skill_file
                 THEN Append(skills, [skill_id |-> skill_dir.folder,
                                      name |-> ParsedSkillName(skill_dir),
                                      path |-> <<path, skill_dir.folder>>])
                 ELSE skills)

\* skills.py:78-105
discover_skills(path, order) ==
    IF ~SkillsDirExists(path) THEN <<>> ELSE DiscoverSkillsLoop(path, order, <<>>)

\* skills.py:139  skill_name.lower().replace("_", "-").replace(" ", "-")
SkillId(skill_name) == Replace(Replace(Lower(skill_name), "_", "-"), " ", "-")

\* list.remove(x): the first occurrence goes
RemoveFirst(list, x) ==
    LET i == CHOOSE k \in 1..Len(list) :
                 list[k] = x /\ \A j \in 1..(k - 1) : list[j] # x
    IN  SubSeq(list, 1, i - 1) \o SubSeq(list, i + 1, Len(list))

SkillRet(op, arg, outcome, shown) ==
    [op |-> op, arg |-> arg, outcome |-> outcome, shown |-> shown]

\* skills.py:126-162  what load_skill returns, and the list after it
load_skill(skill_name) ==
    LET skill_id == SkillId(skill_name)
    IN  IF ~SkillHas(_skills, skill_id)
        THEN [ret |-> SkillRet("load_skill", skill_name, "not_found", SkillKeys(_skills)),
              loaded |-> _loaded_skills]
        ELSE IF InList(_loaded_skills, skill_id)
        THEN [ret |-> SkillRet("load_skill", skill_name, "already_loaded",
                               <<SkillGet(_skills, skill_id).name>>),
              loaded |-> _loaded_skills]
        ELSE [ret |-> SkillRet("load_skill", skill_name, "loaded",
                               <<SkillGet(_skills, skill_id).name>>),
              loaded |-> Append(_loaded_skills, skill_id)]

\* skills.py:190-201  _skills[skill_id] raises KeyError for an id that is no key
list_loaded_skills ==
    IF _loaded_skills = <<>>
    THEN SkillRet("list_loaded_skills", <<>>, "none_loaded", <<>>)
    ELSE IF \E i \in 1..Len(_loaded_skills) : ~SkillHas(_skills, _loaded_skills[i])
    THEN SkillRet("list_loaded_skills", <<>>, "KeyError", <<>>)
    ELSE SkillRet("list_loaded_skills", <<>>, "listed",
                  [i \in 1..Len(_loaded_skills) |->
                      [name |-> SkillGet(_skills, _loaded_skills[i]).name,
                       skill_id |-> _loaded_skills[i]]])

\* skills.py:204-218  the id is removed before its name is looked up
unload_skill(skill_name) ==
    LET skill_id == SkillId(skill_name)
    IN  IF ~InList(_loaded_skills, skill_id)
        THEN [ret |-> SkillRet("unload_skill", skill_name, "not_loaded", <<>>),
              loaded |-> _loaded_skills]
        ELSE IF ~SkillHas(_skills, skill_id)
        THEN [ret |-> SkillRet("unload_skill", skill_name, "KeyError", <<>>),
              loaded |-> RemoveFirst(_loaded_skills, skill_id)]
        ELSE [ret |-> SkillRet("unload_skill", skill_name, "unloaded",
                               <<SkillGet(_skills, skill_id).name>>),
              loaded |-> RemoveFirst(_loaded_skills, skill_id)]

\* the names a caller gives to load_skill and unload_skill
SkillNames == { Str_PythonExpert, Chars("Go_Expert"), Chars("rust expert") }

\* skills.py:19-21,123  module load: the default directory is scanned
SkillsInit ==
    /\ SelectorIdle
    /\ RetryIdle
    /\ PipelineIdle
    /\ SupportIdle
    /\ _skills_dir = "skills"
    /\ \E order \in IterdirOrders(_skills_dir) :
          _skills = discover_skills(_skills_dir, order)
    /\ _loaded_skills = <<>>
    /\ skill_ret = NoSkillRet

\* skills.py:24-32
SetSkillsDirectory(path) ==
    /\ _skills_dir' = path
    /\ \E order \in IterdirOrders(path) : _skills' = discover_skills(path, order)
    /\ skill_ret' = SkillRet("set_skills_directory", Chars(path), "None", <<>>)
    /\ UNCHANGED <<selectorVars, retryVars, pipelineVars, supportVars, _loaded_skills>>

LoadSkill(skill_name) ==
    /\ skill_ret' = load_skill(skill_name).ret
    /\ _loaded_skills' = load_skill(skill_name).loaded
    /\ UNCHANGED <<selectorVars, retryVars, pipelineVars, supportVars, _skills_dir,
                   _skills>>

UnloadSkill(skill_name) ==
    /\ skill_ret' = unload_skill(skill_name).ret
    /\ _loaded_skills' = unload_skill(skill_name).loaded
    /\ UNCHANGED <<selectorVars, retryVars, pipelineVars, supportVars, _skills_dir,
                   _skills>>

\* skills.py:40-43
ResetLoadedSkills ==
    /\ _loaded_skills' = <<>>
    /\ skill_ret' = SkillRet("reset_loaded_skills", <<>>, "None", <<>>)
    /\ UNCHANGED <<selectorVars, retryVars, pipelineVars, supportVars, _skills_dir,
                   _skills>>

ListLoadedSkills ==
    /\ skill_ret' = list_loaded_skills
    /\ UNCHANGED <<selectorVars, retryVars, pipelineVars, supportVars, _skills_dir,
                   _skills, _loaded_skills>>

SkillsNext ==
    \/ \E path \in SkillPaths : SetSkillsDirectory(path)
    \/ \E n \in SkillNames : LoadSkill(n)
    \/ \E n \in SkillNames : UnloadSkill(n)
    \/ ResetLoadedSkills
    \/ ListLoadedSkills

SkillsSpec == SkillsInit /\ [][SkillsNext]_vars

----------------------------------------------------------------------------
(* Claims about the skills tracker *)

\* C29: after any sequence of set_skills_directory, load_skill, unload_skill
\* and reset_loaded_skills, every id of the loaded-skills list is a key of the
\* discovered skills, and neither list_loaded_skills nor unload_skill fails on
\* the lookup of a loaded id.
C29_LoadedSkillsAreDiscovered ==
    /\ \A i \in 1..Len(_loaded_skills) : SkillHas(_skills, _loaded_skills[i])
    /\ skill_ret.outcome # "KeyError"
    /\ list_loaded_skills.outcome # "KeyError"
    /\ \A n \in SkillNames : unload_skill(n).ret.outcome # "KeyError"

====
